---- MODULE Spec2Model ----
(***************************************************************************)
(* Model of the LangGraph agent with the custom LLM gateway client:        *)
(*   - the SSE stream path (StreamProcessor.processStream and the          *)
(*     monolithic LLMGatewayClient._streamResponseChunks),                 *)
(*   - the aggregation in _generate / collectStreamResults,                *)
(*   - ResponseParser.parseToolCalls,                                      *)
(*   - the agent graph (REASON / ROUTE / ACT) and the driving loop.        *)
(*                                                                         *)
(* Text is modelled as a sequence of atoms.  An atom is one character      *)
(* ("{", "\n", " ", ...) or an indivisible run of characters no operation  *)
(* of the program looks into ("Hello", "tool_name", "data:", "[DONE]").    *)
(***************************************************************************)
EXTENDS Integers, Sequences, FiniteSets, TLC

VARIABLES
    \* ---- one gateway call (the stream path) ----
    impl,            \* "refactored" (StreamProcessor) or "monolithic" client
    wire,            \* the bytes of the response body, as sent by the gateway
    body,            \* the bytes not yet delivered by the network
    decoder,         \* TextDecoder state: bytes of an incomplete character
    buffer,          \* processStream: let buffer
    usageData,       \* processStream: let usageData
    streamCancelled, \* processStream: let streamCancelled
    yielded,         \* chunks the generator has yielded to its consumer
    doneAt,          \* number of chunks yielded when the call became terminal, or -1
    spc,             \* position of the call: "fetch", "streaming", "returned", "threw"
    result,          \* what _generate returned (NoResult before)
    response,        \* the response of the gateway (NoResponse before it answers)
    signalAborted,   \* signal.aborted of the composed abort signal
    abortAt,         \* chunks yielded when the caller's signal fired, or -1
    optionsSignal,   \* options.signal of the call: "none", "caller" or "timeout"
    twin,            \* the same exchange in the hands of the client of the other
                     \* kind: where its call stands and what it has yielded
    \* ---- abortSignalAny as a function ----
    signals,         \* signal.aborted of each input signal, in the order of the list
    controller,      \* the AbortController of the combined signal (NoController before)
    \* ---- parseToolCalls as a function ----
    ptext,           \* the aggregated text handed to parseToolCalls
    presult,         \* its return value (NoParse before the call)
    \* ---- formatMessages as a function ----
    systemPrompt,    \* the formatter's defaultSystemPrompt (<<>> when not configured)
    gatewayMessages, \* its return value: the messages of the request body
    \* ---- the agent graph and the driving loop ----
    graph,           \* "react" (createReactAgent) or "custom" (StateGraph)
    messages,        \* state.messages
    threadId,        \* state.threadId
    apc,             \* "idle", "agent", "route", "tools", "end", "error",
                     \* "format", "formatted"
    steps,           \* graph steps taken in the current invoke
    reasons,         \* entries of the agent node in the current invoke
    requests,        \* gateway requests of the current invoke (their threadId)
    turns,           \* invokes started by the driving loop
    uuid,            \* number of uuidv4() values drawn so far
    update,          \* the state update applied last (a node's return value)
    exchange,        \* the gateway exchange of the agent node entered last
    \* ---- the driving loop (main) and the process ----
    currentThreadId, \* main: let currentThreadId (NoThread for null)
    lpc,             \* where main waits: "question", "invoke", "cleanup", "catch"
    closing,         \* main: let closing
    closes,          \* calls of closeMcpClient so far
    exitCode         \* "running", or the code given to process.exit

vars == <<impl, wire, body, decoder, buffer, usageData, streamCancelled, yielded,
          doneAt, spc, result, response, signalAborted, abortAt, optionsSignal, twin,
          signals, controller, ptext, presult, systemPrompt,
          gatewayMessages, graph, messages, threadId, apc,
          steps, reasons, requests, turns, uuid, update, exchange, currentThreadId,
          lpc, closing, closes, exitCode>>

streamVars == <<impl, wire, body, decoder, buffer, usageData, streamCancelled,
                yielded, doneAt, spc, result, response, signalAborted, abortAt,
                optionsSignal, twin, signals, controller>>
anyVars == <<signals, controller>>
parseVars == <<ptext, presult, systemPrompt, gatewayMessages>>
loopVars == <<currentThreadId, lpc, closing, closes, exitCode>>
agentVars == <<graph, messages, threadId, apc, steps, reasons, requests, turns, uuid,
               update, exchange, loopVars>>

-----------------------------------------------------------------------------
(* JavaScript strings                                                      *)

Quote == "\""
EscQuote == "\\\""
EscNL == "\\n"
NL == "\n"
Whitespace == {" ", NL}

RECURSIVE TrimStart(_)
TrimStart(s) ==
    IF s = <<>> \/ Head(s) \notin Whitespace THEN s ELSE TrimStart(Tail(s))

RECURSIVE TrimEnd(_)
TrimEnd(s) ==
    IF s = <<>> \/ s[Len(s)] \notin Whitespace THEN s
    ELSE TrimEnd(SubSeq(s, 1, Len(s) - 1))

\* a trim that leaves the trailing whitespace
TrimStartOnly(s) == TrimStart(s)

\* String.prototype.trim
Trim(s) == TrimEnd(TrimStart(s))

\* s.substring(i) with i counted from 0
Substring(s, i) == SubSeq(s, i + 1, Len(s))

\* s.indexOf(a, from): the first index >= from (from 1) holding atom a, or 0
IndexOfAtom(s, a, from) ==
    LET at == {i \in from..Len(s) : s[i] = a} IN
    IF at = {} THEN 0 ELSE CHOOSE i \in at : \A j \in at : i <= j

\* buffer.indexOf("\n\n"), counted from 1; 0 stands for -1
IndexOfBoundary(s) ==
    LET at == {i \in 1..(Len(s) - 1) : s[i] = NL /\ s[i + 1] = NL} IN
    IF at = {} THEN 0 ELSE CHOOSE i \in at : \A j \in at : i <= j

\* message.split("\n")
RECURSIVE SplitLines(_)
SplitLines(s) ==
    LET i == IndexOfAtom(s, NL, 1) IN
    IF i = 0 THEN <<s>>
    ELSE <<SubSeq(s, 1, i - 1)>> \o SplitLines(SubSeq(s, i + 1, Len(s)))

-----------------------------------------------------------------------------
(* JavaScript values and JSON.parse                                        *)
(* A value is [t, s, m]: t its type, s the text of a string or number, m   *)
(* the members of an object (key k, value v) or of an array (k empty).     *)

Undefined == [t |-> "undefined", s |-> <<>>, m |-> <<>>]
JNull == [t |-> "null", s |-> <<>>, m |-> <<>>]
JStr(s) == [t |-> "string", s |-> s, m |-> <<>>]
JNum(a) == [t |-> "number", s |-> <<a>>, m |-> <<>>]
JBool(a) == [t |-> "boolean", s |-> <<a>>, m |-> <<>>]
JObj(m) == [t |-> "object", s |-> <<>>, m |-> m]
JArr(m) == [t |-> "array", s |-> <<>>, m |-> m]

Digits == {"0", "2", "3", "5", "7"}

ParseFail == [ok |-> FALSE, v |-> Undefined, i |-> 0]

RECURSIVE SkipWs(_, _)
SkipWs(s, i) ==
    IF i <= Len(s) /\ s[i] \in Whitespace THEN SkipWs(s, i + 1) ELSE i

Unescape(a) == IF a = EscQuote THEN Quote ELSE IF a = EscNL THEN NL ELSE a

\* the string literal whose characters start at index i (after the opening
\* quote): it ends at the next quote; a raw line break inside it is an error
ScanString(s, i) ==
    LET Closed(q) ==
            IF q = 0 \/ \E n \in i..(q - 1) : s[n] = NL THEN ParseFail
            ELSE [ok |-> TRUE,
                  v |-> JStr([n \in 1..(q - i) |-> Unescape(s[i + n - 1])]),
                  i |-> q + 1]
    IN Closed(IndexOfAtom(s, Quote, i))

RECURSIVE ParseValue(_, _)
RECURSIVE ParseMembers(_, _, _)
RECURSIVE ParseElements(_, _, _)

ParseMembers(s, i, acc) ==
    LET j == SkipWs(s, i) IN
    IF j > Len(s) \/ s[j] # Quote THEN ParseFail
    ELSE LET key == ScanString(s, j + 1) IN
    IF ~key.ok THEN ParseFail
    ELSE LET c == SkipWs(s, key.i) IN
    IF c > Len(s) \/ s[c] # ":" THEN ParseFail
    ELSE LET val == ParseValue(s, c + 1) IN
    IF ~val.ok THEN ParseFail
    ELSE LET e == SkipWs(s, val.i)
             acc2 == Append(acc, [k |-> key.v.s, v |-> val.v]) IN
    IF e > Len(s) THEN ParseFail
    ELSE IF s[e] = "," THEN ParseMembers(s, e + 1, acc2)
    ELSE IF s[e] = "}" THEN [ok |-> TRUE, v |-> JObj(acc2), i |-> e + 1]
    ELSE ParseFail

ParseElements(s, i, acc) ==
    LET val == ParseValue(s, i) IN
    IF ~val.ok THEN ParseFail
    ELSE LET e == SkipWs(s, val.i)
             acc2 == Append(acc, [k |-> <<>>, v |-> val.v]) IN
    IF e > Len(s) THEN ParseFail
    ELSE IF s[e] = "," THEN ParseElements(s, e + 1, acc2)
    ELSE IF s[e] = "]" THEN [ok |-> TRUE, v |-> JArr(acc2), i |-> e + 1]
    ELSE ParseFail

ParseValue(s, i) ==
    LET j == SkipWs(s, i) IN
    IF j > Len(s) THEN ParseFail
    ELSE IF s[j] = "{" THEN
        LET k == SkipWs(s, j + 1) IN
        IF k <= Len(s) /\ s[k] = "}"
        THEN [ok |-> TRUE, v |-> JObj(<<>>), i |-> k + 1]
        ELSE ParseMembers(s, j + 1, <<>>)
    ELSE IF s[j] = "[" THEN
        LET k == SkipWs(s, j + 1) IN
        IF k <= Len(s) /\ s[k] = "]"
        THEN [ok |-> TRUE, v |-> JArr(<<>>), i |-> k + 1]
        ELSE ParseElements(s, j + 1, <<>>)
    ELSE IF s[j] = Quote THEN ScanString(s, j + 1)
    ELSE IF s[j] \in Digits THEN [ok |-> TRUE, v |-> JNum(s[j]), i |-> j + 1]
    ELSE IF s[j] = "null" THEN [ok |-> TRUE, v |-> JNull, i |-> j + 1]
    ELSE IF s[j] \in {"true", "false"} THEN [ok |-> TRUE, v |-> JBool(s[j]), i |-> j + 1]
    ELSE ParseFail

\* JSON.parse(s): ok = FALSE stands for the SyntaxError it throws
JSONParse(s) ==
    LET Whole(r) == IF r.ok /\ SkipWs(s, r.i) > Len(s)
                    THEN [ok |-> TRUE, v |-> r.v]
                    ELSE [ok |-> FALSE, v |-> Undefined]
    IN Whole(ParseValue(s, 1))

\* "key" in o  (o an object or an array)
HasKey(o, key) == o.t = "object" /\ \E i \in 1..Len(o.m) : o.m[i].k = key

\* o.key for a value that is neither null nor undefined
Get(o, key) ==
    IF HasKey(o, key)
    THEN LET i == CHOOSE i \in 1..Len(o.m) :
                    o.m[i].k = key /\ \A j \in (i + 1)..Len(o.m) : o.m[j].k # key
         IN o.m[i].v
    ELSE Undefined

\* typeof v === "object" && v !== null
IsObjectLike(v) == v.t \in {"object", "array"}

\* ToBoolean(v)
Truthy(v) ==
    CASE v.t \in {"undefined", "null"} -> FALSE
      [] v.t = "string" -> v.s # <<>>
      [] v.t = "number" -> v.s # <<"0">>
      [] v.t = "boolean" -> v.s = <<"true">>
      [] OTHER -> TRUE

-----------------------------------------------------------------------------
(* ResponseParser.parseToolCalls                                           *)

\* the three backquotes that open and close a fenced block
Fence == "<fence>"

\* \s*<fence> matches right after index e
ClosesAfter(s, e) ==
    LET c == SkipWs(s, e + 1) IN c <= Len(s) /\ s[c] = Fence

\* \s*$ (flag m) matches right after index r
LineEndsAfter(s, r) ==
    LET c == SkipWs(s, r + 1) IN
    c > Len(s) \/ \E n \in (r + 1)..(c - 1) : s[n] = NL

NoMatch == [ok |-> FALSE, g |-> <<>>]

\* <fence>json\s*([\s\S]+?)\s*<fence> tried at index p: \s* is greedy and gives back,
\* the group is lazy
FencedAt(s, p) ==
    IF ~(p + 1 <= Len(s) /\ s[p] = Fence /\ s[p + 1] = "json") THEN NoMatch
    ELSE LET q0 == p + 2
             q1 == SkipWs(s, q0)
             starts == {g \in q0..q1 : \E e \in g..Len(s) : ClosesAfter(s, e)}
         IN IF starts = {} THEN NoMatch
            ELSE LET g == CHOOSE x \in starts : \A y \in starts : y <= x
                     e == CHOOSE x \in g..Len(s) :
                            ClosesAfter(s, x) /\ \A y \in g..(x - 1) : ~ClosesAfter(s, y)
                 IN [ok |-> TRUE, g |-> SubSeq(s, g, e)]

\* ^\s*(\{[\s\S]+\})\s*$ with flag m tried at index p: [\s\S]+ is greedy
BareAt(s, p) ==
    IF ~(p = 1 \/ s[p - 1] = NL) THEN NoMatch
    ELSE LET b == SkipWs(s, p)
             ends == {r \in (b + 2)..Len(s) : s[r] = "}" /\ LineEndsAfter(s, r)}
         IN IF b > Len(s) \/ s[b] # "{" \/ ends = {} THEN NoMatch
            ELSE LET r == CHOOSE x \in ends : \A y \in ends : y <= x
                 IN [ok |-> TRUE, g |-> SubSeq(s, b, r)]

\* responseText.match(/<fence>json\s*([\s\S]+?)\s*<fence>|^\s*(\{[\s\S]+\})\s*$/m):
\* the leftmost index where an alternative matches, the fenced one first;
\* g is jsonMatch[1] ?? jsonMatch[2]
JsonMatch(s) ==
    LET At(p) == LET First(f) == IF f.ok THEN f ELSE BareAt(s, p) IN First(FencedAt(s, p))
        Leftmost(hits) ==
            IF hits = {} THEN NoMatch
            ELSE At(CHOOSE x \in hits : \A y \in hits : x <= y)
    IN Leftmost({p \in 1..Len(s) : At(p).ok})

\* a processCall that takes the name and the arguments from the wrong keys
ProcessCallSwapped(call, st, ids) ==
    IF call.t \in {"null", "undefined"} THEN [st EXCEPT !.threw = TRUE]
    ELSE IF call.t = "object" /\ \E i \in 1..Len(call.m) : call.m[i].k = <<"tool_name">>
    THEN [st EXCEPT !.calls = Append(@, [name |-> call.m[Len(call.m)].v,
                                         args |-> call.m[1].v,
                                         id |-> ids + Len(st.calls) + 1])]
    ELSE st

\* processCall: st = [threw, calls], ids the uuidv4 values already drawn
ProcessCall(call, st, ids) ==
    LET Push(name, args) ==
            IF Truthy(name) /\ args # Undefined
            THEN [st EXCEPT !.calls = Append(@, [name |-> name, args |-> args,
                                                 id |-> ids + Len(st.calls) + 1])]
            ELSE st
    IN IF call.t \in {"null", "undefined"} THEN [st EXCEPT !.threw = TRUE]
       ELSE Push(Get(call, <<"tool_name">>), Get(call, <<"tool_input">>))

\* parsedJson.forEach(processCall), which ends at the first call that throws
RECURSIVE ForEachCall(_, _, _)
ForEachCall(elems, st, ids) ==
    IF elems = <<>> \/ st.threw THEN st
    ELSE ForEachCall(Tail(elems), ProcessCall(Head(elems).v, st, ids), ids)

\* the try block of parseToolCalls: the calls pushed, and whether it threw
TryParseCalls(responseText, ids) ==
    LET none == [threw |-> FALSE, calls |-> <<>>]
        Calls(parsed) ==
            IF ~parsed.ok THEN [none EXCEPT !.threw = TRUE]
            ELSE IF parsed.v.t = "array" THEN ForEachCall(parsed.v.m, none, ids)
            ELSE IF parsed.v.t = "object" THEN ProcessCall(parsed.v, none, ids)
            ELSE none
        Matched(m) ==
            IF ~m.ok \/ Trim(m.g) = <<>> THEN none ELSE Calls(JSONParse(Trim(m.g)))
    IN Matched(JsonMatch(responseText))

\* toolCalls: absent (undefined) or a list
NoToolCalls == [defined |-> FALSE, list |-> <<>>]
ToolCallList(l) == [defined |-> TRUE, list |-> l]

parseToolCalls(responseText, ids) ==
    LET finalResponseText(r) ==
            IF r.threw THEN responseText
            ELSE IF Len(r.calls) > 0 THEN <<>>
            ELSE responseText
        Parsed(r) ==
            [textResponse |-> Trim(finalResponseText(r)),
             toolCalls |-> IF Len(r.calls) > 0 THEN ToolCallList(r.calls) ELSE NoToolCalls]
    IN Parsed(TryParseCalls(responseText, ids))

-----------------------------------------------------------------------------
(* TextDecoder: decoder.decode(chunk, { stream: true })                    *)
(* The bytes are the atoms themselves, but for one two-byte character.     *)

LeadByte == "0xC3"
ContByte == "0xA9"
EAcute == "U+00E9"
Replacement == "U+FFFD"

\* the characters the byte at position i of the bytes completes: the two-byte
\* character at its lead byte, U+FFFD for a byte that is part of no character,
\* nothing for a consumed continuation byte and for a lead byte still waiting
DecodeAt(bytes, i) ==
    IF bytes[i] = LeadByte THEN
        IF i = Len(bytes) THEN <<>>
        ELSE IF bytes[i + 1] = ContByte THEN <<EAcute>> ELSE <<Replacement>>
    ELSE IF bytes[i] = ContByte THEN
        IF i > 1 /\ bytes[i - 1] = LeadByte THEN <<>> ELSE <<Replacement>>
    ELSE <<bytes[i]>>

\* decoder.decode(chunk, { stream: true }); pending: the bytes of an incomplete
\* character the decoder keeps from the chunks before
RECURSIVE DecodeRange(_, _, _)
DecodeRange(bytes, lo, hi) ==
    IF lo > hi THEN <<>>
    ELSE IF lo = hi THEN DecodeAt(bytes, lo)
    ELSE LET mid == (lo + hi) \div 2
         IN DecodeRange(bytes, lo, mid) \o DecodeRange(bytes, mid + 1, hi)

Decode(pending, chunk) ==
    LET bytes == pending \o chunk
    IN [text |-> DecodeRange(bytes, 1, Len(bytes)),
        pending |-> IF bytes # <<>> /\ bytes[Len(bytes)] = LeadByte
                    THEN <<LeadByte>> ELSE <<>>]

-----------------------------------------------------------------------------
(* StreamProcessor.processStream / LLMGatewayClient._streamResponseChunks  *)

\* a || 0 for the token counts
OrZero(v) == IF Truthy(v) THEN v ELSE JNum("0")

\* a + b for two numbers, as the value the sum has
AddNum(a, b) == [t |-> "number", s |-> <<"sum", a.s[1], b.s[1]>>, m |-> <<>>]

\* new ChatGenerationChunk({ text, message: new AIMessageChunk({ content: text }) })
TextChunk(text) == [text |-> text, usage |-> Undefined, generationInfo |-> Undefined]

\* createUsageChunk(usageData)
createUsageChunk(u) ==
    LET Chunk(prompt, completion) ==
            [text |-> JStr(<<>>),
             usage |-> u,
             generationInfo |->
                JObj(<<[k |-> <<"tokenUsage">>,
                        v |-> JObj(<<[k |-> <<"promptTokens">>, v |-> prompt],
                                     [k |-> <<"completionTokens">>, v |-> completion],
                                     [k |-> <<"totalTokens">>,
                                      v |-> AddNum(prompt, completion)]>>)]>>)]
    IN Chunk(OrZero(Get(u, <<"inputTokens">>)), OrZero(Get(u, <<"outputTokens">>)))

\* a loop that forgets the unfinished frame of the chunk before
LoopStateFresh(buf, usage, cancelled) ==
    [buffer |-> <<>>, usageData |-> usage, streamCancelled |-> cancelled,
     out |-> <<>>, doneAt |-> -1]

\* The state of the parsing loop: buffer, usageData, streamCancelled, the chunks
\* yielded (out) and, for the record, how many had been yielded when the
\* sentinel was processed (doneAt, -1 before).
LoopState(buf, usage, cancelled) ==
    [buffer |-> buf, usageData |-> usage, streamCancelled |-> cancelled,
     out |-> <<>>, doneAt |-> -1]

\* a line loop for which a data line that is no event is fatal
ProcessLineAbort(line, st) ==
    LET Event(parsed) ==
            IF parsed.ok /\ IsObjectLike(parsed.v) /\ HasKey(parsed.v, <<"type">>)
               /\ Get(parsed.v, <<"type">>) = JStr(<<"text">>)
            THEN [st EXCEPT !.out = Append(@, TextChunk(Get(parsed.v, <<"text">>)))]
            ELSE IF parsed.ok /\ IsObjectLike(parsed.v) /\ HasKey(parsed.v, <<"type">>)
                    /\ Get(parsed.v, <<"type">>) = JStr(<<"usage">>)
            THEN [st EXCEPT !.usageData = Get(parsed.v, <<"usage">>)]
            ELSE [st EXCEPT !.streamCancelled = TRUE]
        Data(dataStr) ==
            IF dataStr = <<"[DONE]">>
            THEN [st EXCEPT !.streamCancelled = TRUE, !.doneAt = Len(st.out)]
            ELSE Event(JSONParse(dataStr))
    IN IF line # <<>> /\ Head(line) = "data:"
       THEN Data(Trim(Substring(line, 1)))
       ELSE st

\* a line loop that yields the usage chunk where the usage event stands
ProcessLineUsageInPlace(line, st) ==
    LET Event(parsed) ==
            IF parsed.ok /\ IsObjectLike(parsed.v) /\ HasKey(parsed.v, <<"type">>)
               /\ Get(parsed.v, <<"type">>) = JStr(<<"text">>)
            THEN [st EXCEPT !.out = Append(@, TextChunk(Get(parsed.v, <<"text">>)))]
            ELSE IF parsed.ok /\ IsObjectLike(parsed.v) /\ HasKey(parsed.v, <<"type">>)
                    /\ Get(parsed.v, <<"type">>) = JStr(<<"usage">>)
            THEN [st EXCEPT !.usageData = Get(parsed.v, <<"usage">>),
                            !.out = Append(@, createUsageChunk(Get(parsed.v, <<"usage">>)))]
            ELSE st
        Data(dataStr) ==
            IF dataStr = <<"[DONE]">>
            THEN [st EXCEPT !.streamCancelled = TRUE, !.doneAt = Len(st.out)]
            ELSE Event(JSONParse(dataStr))
    IN IF line # <<>> /\ Head(line) = "data:"
       THEN Data(Trim(Substring(line, 1)))
       ELSE st

\* the body of "for (const line of lines)"
ProcessLine(line, st) ==
    LET Event(parsed) ==
            IF ~parsed.ok THEN st
            ELSE IF IsObjectLike(parsed.v) /\ HasKey(parsed.v, <<"type">>) THEN
                IF Get(parsed.v, <<"type">>) = JStr(<<"text">>)
                THEN [st EXCEPT !.out = Append(@, TextChunk(Get(parsed.v, <<"text">>)))]
                ELSE IF Get(parsed.v, <<"type">>) = JStr(<<"usage">>)
                THEN [st EXCEPT !.usageData = Get(parsed.v, <<"usage">>)]
                ELSE st
            ELSE st
        Data(dataStr) ==
            IF dataStr = <<"[DONE]">>
            THEN [st EXCEPT !.streamCancelled = TRUE, !.doneAt = Len(st.out)]
            ELSE Event(JSONParse(dataStr))
    IN IF line # <<>> /\ Head(line) = "data:"
       THEN Data(Trim(Substring(line, 1)))
       ELSE st

\* a line loop that is not left at the sentinel
RECURSIVE ProcessLinesNoBreak(_, _)
ProcessLinesNoBreak(lines, st) ==
    IF lines = <<>> THEN st
    ELSE ProcessLinesNoBreak(Tail(lines),
            [ProcessLine(Head(lines), st) EXCEPT
                !.streamCancelled = @ \/ st.streamCancelled,
                !.doneAt = IF st.streamCancelled THEN st.doneAt ELSE @])

\* "for (const line of lines)", left by break at the sentinel
RECURSIVE ProcessLines(_, _)
ProcessLines(lines, st) ==
    LET Rest(st2) == IF st2.streamCancelled THEN st2 ELSE ProcessLines(Tail(lines), st2)
    IN IF lines = <<>> THEN st ELSE Rest(ProcessLine(Head(lines), st))

\* "while ((boundaryIndex = buffer.indexOf("\n\n")) >= 0)"
RECURSIVE ProcessFrames(_)
ProcessFrames(st) ==
    LET Rest(st2) == IF st2.streamCancelled THEN st2 ELSE ProcessFrames(st2)
        Message(message, st1) ==
            IF Trim(message) = <<>> THEN ProcessFrames(st1)
            ELSE Rest(ProcessLines(SplitLines(message), st1))
        At(boundaryIndex) ==
            IF boundaryIndex = 0 \/ st.streamCancelled THEN st
            ELSE Message(SubSeq(st.buffer, 1, boundaryIndex - 1),
                         [st EXCEPT !.buffer = SubSeq(@, boundaryIndex + 2, Len(@))])
    IN At(IndexOfBoundary(st.buffer))

\* one turn of "for await (const chunk of responseBody)" on decoded text
ProcessChunk(text, st) ==
    IF st.streamCancelled THEN st
    ELSE ProcessFrames([st EXCEPT !.buffer = @ \o text])

\* what follows the chunk loop: the final chunk with the usage data
FinalChunks(usage) == IF Truthy(usage) THEN <<createUsageChunk(usage)>> ELSE <<>>

-----------------------------------------------------------------------------
(* StreamProcessor.collectStreamResults and LLMGatewayClient._generate     *)

\* the string a value becomes when it is appended to a string
ToText(v) ==
    CASE v.t = "string" -> v.s
      [] v.t = "number" -> v.s
      [] v.t = "boolean" -> v.s
      [] v.t = "null" -> <<"null">>
      [] v.t = "undefined" -> <<"undefined">>
      [] OTHER -> <<"[object Object]">>

\* chunk.generationInfo?.usage
GenerationInfoUsage(chunk) ==
    IF chunk.generationInfo = Undefined THEN Undefined
    ELSE Get(chunk.generationInfo, <<"usage">>)

NoChunk == [text |-> Undefined, usage |-> Undefined, generationInfo |-> JNull]

\* an aggregation that keeps the text of the last chunk only
CollectLastText(chunks, acc) ==
    IF chunks = <<>> THEN acc
    ELSE [aggregatedText |-> ToText(chunks[Len(chunks)].text),
          usageData |-> acc.usageData,
          lastChunk |-> chunks[Len(chunks)]]

RECURSIVE CollectFrom(_, _)
CollectFrom(chunks, acc) ==
    LET Next(chunk, usage) ==
            [aggregatedText |-> acc.aggregatedText \o ToText(chunk.text),
             usageData |-> IF Truthy(usage) THEN usage ELSE acc.usageData,
             lastChunk |-> chunk]
    IN IF chunks = <<>> THEN acc
       ELSE CollectFrom(Tail(chunks), Next(Head(chunks), GenerationInfoUsage(Head(chunks))))

\* collectStreamResults over the chunks the stream yielded
collectStreamResults(chunks) ==
    CollectFrom(chunks, [aggregatedText |-> <<>>, usageData |-> JNull, lastChunk |-> NoChunk])

\* new AIMessage({ content, tool_calls, additional_kwargs: usage })
AIMessage(content, toolCalls, usage) ==
    [type |-> "ai", content |-> content, tool_calls |-> toolCalls,
     tool_call_id |-> 0, usage |-> usage]

\* the ChatResult of _generate for a stream that ended without throwing
Generate(chunks, ids) ==
    LET Result(c, p) ==
            [kind |-> "ok", text |-> c.aggregatedText,
             message |-> AIMessage(p.textResponse, p.toolCalls,
                                   IF Truthy(c.usageData) THEN c.usageData ELSE Undefined),
             usage |-> c.usageData,
             generationInfo |-> IF c.lastChunk.generationInfo \in {Undefined, JNull}
                                THEN JObj(<<>>) ELSE c.lastChunk.generationInfo]
        Collected(c) ==
            IF c.lastChunk = NoChunk /\ c.aggregatedText = <<>>
            THEN [kind |-> "ok", text |-> <<>>,
                  message |-> AIMessage(<<>>, NoToolCalls, Undefined),
                  usage |-> c.usageData, generationInfo |-> Undefined]
            ELSE Result(c, parseToolCalls(c.aggregatedText, ids))
    IN Collected(collectStreamResults(chunks))

NoResult == [kind |-> "none", text |-> <<>>,
             message |-> AIMessage(<<>>, NoToolCalls, Undefined),
             usage |-> JNull, generationInfo |-> Undefined]

\* _generate rejected with the error the stream threw: its name and what it
\* carries (its message, for an LLMGatewayError its statusCode and responseBody)
Threw(name, carried) == [NoResult EXCEPT !.kind = "threw", !.text = <<name>> \o carried]

-----------------------------------------------------------------------------
(* The gateway: the response bodies it sends                               *)

MaxFrames == 2
MaxChunk == 3

Str(t) == <<Quote>> \o t \o <<Quote>>
Member(k, val) == Str(<<k>>) \o <<":">> \o val

\* {"type":"text","text":"..."}
TextPayload(t) ==
    <<"{">> \o Member("type", Str(<<"text">>)) \o <<",">> \o Member("text", Str(t)) \o <<"}">>

\* {"type":"usage","usage":{"inputTokens":i,"outputTokens":o}}
UsagePayload(i, o) ==
    <<"{">> \o Member("type", Str(<<"usage">>)) \o <<",">>
      \o Member("usage", <<"{">> \o Member("inputTokens", <<i>>) \o <<",">>
                                 \o Member("outputTokens", <<o>>) \o <<"}">>)
      \o <<"}">>

DataLine(payload) == <<"data:", " ">> \o payload

RECURSIVE JoinLines(_)
JoinLines(lines) ==
    IF Len(lines) = 1 THEN lines[1] ELSE lines[1] \o <<NL>> \o JoinLines(Tail(lines))

\* a frame: its lines and the blank line that ends it
Frame(lines) == JoinLines(lines) \o <<NL, NL>>

\* the text of a string as it is written inside a JSON string literal
Escaped(t) ==
    [n \in 1..Len(t) |->
        IF t[n] = Quote THEN EscQuote ELSE IF t[n] = NL THEN EscNL ELSE t[n]]

\* {"tool_name":"calculator","tool_input":{"operation":"add","num1":2,"num2":3}}
CalculatorCall ==
    <<"{">> \o Member("tool_name", Str(<<"calculator">>)) \o <<",">>
      \o Member("tool_input", <<"{">> \o Member("operation", Str(<<"add">>)) \o <<",">>
                                      \o Member("num1", <<"2">>) \o <<",">>
                                      \o Member("num2", <<"3">>) \o <<"}">>)
      \o <<"}">>

FHello == Frame(<<DataLine(TextPayload(<<"Hello">>))>>)
FAccent == Frame(<<DataLine(TextPayload(<<LeadByte, ContByte>>))>>)
FUsage == Frame(<<DataLine(UsagePayload("3", "5"))>>)
FUsage2 == Frame(<<DataLine(UsagePayload("2", "0"))>>)
FDone == Frame(<<DataLine(<<"[DONE]">>)>>)
\* several lines in one frame: a line that is no data line, a data line that
\* is no JSON, a text, the sentinel, and a text after the sentinel
FLines == Frame(<<<<"event:", " ", "message">>,
                  DataLine(<<"{", "oops">>),
                  DataLine(TextPayload(<<"Hi">>)),
                  DataLine(<<"[DONE]">>),
                  DataLine(TextPayload(<<"late">>))>>)

\* a frame whose data lines are, between two texts: no JSON, JSON that is no
\* object (a number, null), an object without "type", an unknown "type"
FBad == Frame(<<DataLine(TextPayload(<<"Hey">>)),
                DataLine(<<"{", "oops">>),
                DataLine(<<"5">>),
                DataLine(<<"null">>),
                DataLine(<<"{">> \o Member("text", Str(<<"x">>)) \o <<"}">>),
                DataLine(<<"{">> \o Member("type", Str(<<"ping">>)) \o <<"}">>),
                DataLine(TextPayload(<<"you">>))>>)

Frames == {FHello, FAccent, FUsage, FUsage2, FDone, FLines, FBad}

RECURSIVE Concat(_)
Concat(ss) == IF ss = <<>> THEN <<>> ELSE Head(ss) \o Concat(Tail(ss))

\* the bodies: up to MaxFrames complete frames
FrameSeqs == UNION {[1..n -> Frames] : n \in 0..MaxFrames}
Bodies == {Concat(fs) : fs \in FrameSeqs}

-----------------------------------------------------------------------------
(* One gateway call: _generate over _streamResponseChunks                  *)

NoParse == [textResponse |-> <<"?">>, toolCalls |-> NoToolCalls]

IdleParse ==
    /\ ptext = <<>> /\ presult = NoParse
    /\ systemPrompt = <<>> /\ gatewayMessages = <<>>

\* no gateway exchange yet
NoExchange == [outcome |-> "none", text |-> <<>>, error |-> <<>>]

\* main before its loop: no thread, not closing, the process running
IdleLoop(at) ==
    /\ exchange = NoExchange /\ currentThreadId = 0 /\ lpc = at
    /\ closing = FALSE /\ closes = 0 /\ exitCode = "running"

IdleAgent ==
    /\ graph = "custom" /\ messages = <<>> /\ threadId = 0 /\ apc = "idle"
    /\ steps = 0 /\ reasons = 0 /\ requests = <<>> /\ turns = 0 /\ uuid = 0
    /\ update = [messages |-> <<>>, threadId |-> 0]
    /\ IdleLoop("question")

\* let response: Response | null = null
NoResponse ==
    [kind |-> "none", status |-> "", contentType |-> "", errorBody |-> <<>>,
     readable |-> TRUE]

EventStream == "text/event-stream"

\* what the gateway can answer: a success status with a body (an event stream
\* or a body of another content type), a success status without a body, a
\* non-success status with an error body (that can or cannot be read)
Responses ==
    {[kind |-> "stream", status |-> "200", contentType |-> ct, errorBody |-> <<>>,
      readable |-> TRUE] : ct \in {EventStream, "application/json"}}
    \cup {[kind |-> "nobody", status |-> "200", contentType |-> EventStream,
            errorBody |-> <<>>, readable |-> TRUE]}
    \cup {[kind |-> "status", status |-> st, contentType |-> "application/json",
            errorBody |-> <<"denied">>, readable |-> r] :
              st \in {"401", "500"}, r \in BOOLEAN}

\* no exchange is compared
NoTwin == [spc |-> "idle", yielded |-> <<>>]

IdleCall ==
    /\ impl = "refactored" /\ wire = <<>> /\ body = <<>> /\ decoder = <<>>
    /\ buffer = <<>> /\ usageData = JNull /\ streamCancelled = FALSE
    /\ yielded = <<>> /\ doneAt = -1 /\ spc = "idle" /\ result = NoResult
    /\ response = NoResponse /\ signalAborted = FALSE /\ abortAt = -1
    /\ optionsSignal = "none"
    /\ twin = NoTwin

\* no signal has been combined
NoController ==
    [made |-> FALSE, aborted |-> FALSE, onReturn |-> FALSE, reason |-> 0, listeners |-> {}]

IdleAny == signals = <<>> /\ controller = NoController

IdleStream == IdleCall /\ IdleAny

\* a call of _generate on a client of either kind, for a body of Bodies
StartCall(bodies) ==
    /\ impl \in {"refactored", "monolithic"}
    /\ wire \in bodies
    /\ body = wire
    /\ decoder = <<>>
    /\ buffer = <<>>
    /\ usageData = JNull
    /\ streamCancelled = FALSE
    /\ yielded = <<>>
    /\ doneAt = -1
    /\ spc = "fetch"
    /\ result = NoResult
    /\ response = NoResponse
    /\ signalAborted = FALSE
    /\ abortAt = -1
    /\ twin = [spc |-> "fetch", yielded |-> <<>>]
    /\ IdleAny
    /\ IdleParse
    /\ IdleAgent

InitStream == StartCall(Bodies) /\ optionsSignal = "none"

\* apiClient.sendRequest rejects for a response whose status is not ok, and
\* for a success status whose content type is not the event-stream type
SendRequestRejects(resp) ==
    resp.kind = "status" \/ (resp.kind = "stream" /\ resp.contentType # EventStream)

\* the error it rejects with: an LLMGatewayError with statusCode and
\* responseBody, or one that names the content type received
SendRequestError(resp) ==
    IF resp.kind = "status" THEN <<"LLMGatewayError", resp.status>> \o resp.errorBody
    ELSE <<"LLMGatewayError", "Unexpected content type: ", resp.contentType>>

\* await response.text().catch(() => "Failed to read error body")
ErrorBodyRead(resp) ==
    IF resp.readable THEN resp.errorBody ELSE <<"Failed to read error body">>

\* a client that checks the body of the response only
ResponseErrorNoStatus(resp) ==
    IF resp.kind = "nobody" THEN <<"Error", "Response body is null.">> ELSE <<>>

\* the error _streamResponseChunks throws for a response before it reads the
\* body (<<>> for none): the monolithic client checks response.ok and
\* response.body; the refactored one rethrows the LLMGatewayError of
\* sendRequest and checks response.body
ResponseErrorOf(client, resp) ==
    IF client = "monolithic"
    THEN IF resp.kind = "status"
         THEN <<"Error", "LLM Gateway API Error: Status ", resp.status, ". Body: ">>
                  \o ErrorBodyRead(resp)
         ELSE IF resp.kind = "nobody" THEN <<"Error", "Response body is null.">>
         ELSE <<>>
    ELSE IF SendRequestRejects(resp) THEN SendRequestError(resp)
    ELSE IF resp.kind = "nobody" THEN <<"LLMGatewayError", "Response body is null.">>
    ELSE <<>>

ResponseError(resp) == ResponseErrorOf(impl, resp)

\* the catch block on an AbortError that the close of the body raises after
\* the sentinel: the monolithic client swallows it (&& !streamCancelled), the
\* refactored one throws "Fetch aborted"
CatchAfterDone(client) == IF client = "monolithic" THEN "returned" ELSE "threw"

OtherImpl == IF impl = "refactored" THEN "monolithic" ELSE "refactored"

\* the twin call, when it is still running, yields out and stands at end
TwinAfter(end, out) ==
    IF twin.spc \in {"fetch", "streaming"}
    THEN [spc |-> end, yielded |-> twin.yielded \o out]
    ELSE twin

\* finally: the client aborts its own controller, which fires the composed
\* signal (the monolithic client leaves it alone after the sentinel)
FinallyAborted(cancelled) == signalAborted \/ impl = "refactored" \/ ~cancelled

\* the error thrown for an AbortError before the sentinel
FetchAborted ==
    Threw(IF impl = "refactored" THEN "LLMGatewayError" ELSE "Error", <<"Fetch aborted">>)

\* await fetch(...) and the checks of the response before the chunk loop
Fetch ==
    /\ spc = "fetch"
    /\ ~signalAborted
    /\ \E resp \in Responses :
         LET Checked(err) ==
                 IF err = <<>>
                 THEN /\ spc' = "streaming"
                      /\ UNCHANGED <<doneAt, result, signalAborted>>
                 ELSE /\ spc' = "threw"
                      /\ doneAt' = Len(yielded)
                      /\ result' = Threw(Head(err), Tail(err))
                      /\ signalAborted' = FinallyAborted(streamCancelled)
         IN /\ response' = resp
            /\ Checked(ResponseError(resp))
            /\ twin' = TwinAfter(IF ResponseErrorOf(OtherImpl, resp) = <<>>
                                 THEN "streaming" ELSE "threw", <<>>)
    /\ UNCHANGED <<impl, optionsSignal, wire, body, decoder, buffer, usageData, streamCancelled,
                   yielded, abortAt>>
    /\ UNCHANGED <<anyVars, parseVars, agentVars>>

\* The network delivers the next n bytes and the chunk loop runs on them; once
\* the sentinel is processed the generator runs to its end.  The caller's
\* signal can fire while the generator is suspended at the k-th chunk it
\* yields for these bytes (k = 0: it does not fire).  When the loop is left at
\* the sentinel with the body already aborted, closing the body's iterator
\* rejects with the AbortError or does not (rejects), as the kind of stream
\* the runtime hands out decides.
Deliver(n, k, rejects) ==
    /\ spc = "streaming"
    /\ ~signalAborted
    /\ n \in 1..Len(body)
    /\ LET Loop(d, st) ==
               /\ k \in 0..(Len(st.out) + IF st.streamCancelled THEN Len(FinalChunks(st.usageData)) ELSE 0)
               /\ k > 0 => optionsSignal # "none"
               /\ rejects => (st.streamCancelled /\ k \in 1..Len(st.out))
               /\ body' = SubSeq(body, n + 1, Len(body))
               /\ decoder' = d.pending
               /\ buffer' = st.buffer
               /\ usageData' = st.usageData
               /\ streamCancelled' = st.streamCancelled
               /\ abortAt' = IF k > 0 THEN Len(yielded) + k ELSE abortAt
               /\ IF ~st.streamCancelled
                  THEN /\ yielded' = yielded \o st.out
                       /\ signalAborted' = (k > 0)
                       /\ twin' = TwinAfter("streaming", st.out)
                       /\ UNCHANGED <<doneAt, spc, result>>
                  ELSE /\ doneAt' = Len(yielded) + st.doneAt
                       /\ signalAborted' = ((k > 0) \/ impl = "refactored")
                       /\ IF ~rejects
                          THEN /\ yielded' = yielded \o st.out \o FinalChunks(st.usageData)
                               /\ spc' = "returned"
                               /\ result' = Generate(yielded', 0)
                               /\ twin' = TwinAfter("returned",
                                                    st.out \o FinalChunks(st.usageData))
                          ELSE /\ yielded' = yielded \o st.out
                               /\ spc' = CatchAfterDone(impl)
                               /\ result' = IF CatchAfterDone(impl) = "returned"
                                            THEN Generate(yielded', 0)
                                            ELSE FetchAborted
                               /\ twin' = TwinAfter(CatchAfterDone(OtherImpl), st.out)
           Decoded(d) ==
               Loop(d, ProcessChunk(d.text, LoopState(buffer, usageData, streamCancelled)))
       IN Decoded(Decode(decoder, SubSeq(body, 1, n)))
    /\ UNCHANGED <<impl, optionsSignal, wire, response>>
    /\ UNCHANGED <<anyVars, parseVars, agentVars>>

\* a chunk of a call whose caller's signal does not fire
DeliverChunk(n) == Deliver(n, 0, FALSE)

\* the body ends: the chunk loop is left and the generator runs to its end
\* an end of the body that takes what is left in the buffer for a last frame
EndOfBodyFlush ==
    /\ spc = "streaming"
    /\ ~signalAborted
    /\ body = <<>>
    /\ LET Flushed(st) ==
               /\ yielded' = yielded \o st.out \o FinalChunks(st.usageData)
               /\ twin' = TwinAfter("returned", st.out \o FinalChunks(st.usageData))
               /\ usageData' = st.usageData
               /\ streamCancelled' = st.streamCancelled
       IN Flushed(ProcessChunk(<<NL, NL>>, LoopState(buffer, usageData, streamCancelled)))
    /\ spc' = "returned"
    /\ result' = Generate(yielded', 0)
    /\ signalAborted' = FinallyAborted(streamCancelled)
    /\ UNCHANGED <<impl, optionsSignal, wire, body, decoder, buffer, doneAt, response, abortAt>>
    /\ UNCHANGED <<anyVars, parseVars, agentVars>>

\* the body has ended: the chunk loop is left and the usage chunk follows
EndOfBody ==
    /\ spc = "streaming"
    /\ ~signalAborted
    /\ body = <<>>
    /\ yielded' = yielded \o FinalChunks(usageData)
    /\ twin' = TwinAfter("returned", FinalChunks(usageData))
    /\ spc' = "returned"
    /\ result' = Generate(yielded', 0)
    /\ signalAborted' = FinallyAborted(streamCancelled)
    /\ UNCHANGED <<impl, optionsSignal, wire, body, decoder, buffer, usageData, streamCancelled,
                   doneAt, response, abortAt>>
    /\ UNCHANGED <<anyVars, parseVars, agentVars>>

\* reading the body fails (the connection breaks): the generator throws
BodyError ==
    /\ spc = "streaming"
    /\ ~signalAborted
    /\ spc' = "threw"
    /\ doneAt' = Len(yielded)
    /\ result' = IF impl = "refactored"
                 THEN Threw("StreamProcessingError",
                            <<"Error during stream processing: ", "read failed">>)
                 ELSE Threw("Error", <<"read failed">>)
    /\ twin' = TwinAfter("threw", <<>>)
    /\ signalAborted' = FinallyAborted(streamCancelled)
    /\ UNCHANGED <<impl, optionsSignal, wire, body, decoder, buffer, usageData, streamCancelled,
                   yielded, response, abortAt>>
    /\ UNCHANGED <<anyVars, parseVars, agentVars>>

NextStream ==
    \/ Fetch
    \/ \E n \in (1..MaxChunk) \cup {Len(body)} : DeliverChunk(n)
    \/ EndOfBody
    \/ BodyError

SpecStream == InitStream /\ [][NextStream]_vars

-----------------------------------------------------------------------------
(* One gateway call whose caller supplied an abort signal (options.signal)  *)

CancelFrames == {FHello, FUsage, FDone, FLines}
CancelBodies == {Concat(fs) : fs \in UNION {[1..n -> CancelFrames] : n \in 1..MaxFrames}}

InitCancel == StartCall(CancelBodies) /\ optionsSignal = "caller"

\* the caller's signal fires while the generator waits for the network
Abort ==
    /\ spc \in {"fetch", "streaming"}
    /\ optionsSignal # "none"
    /\ ~signalAborted
    /\ signalAborted' = TRUE
    /\ abortAt' = Len(yielded)
    /\ UNCHANGED <<impl, optionsSignal, twin, wire, body, decoder, buffer, usageData, streamCancelled,
                   yielded, doneAt, spc, result, response>>
    /\ UNCHANGED <<anyVars, parseVars, agentVars>>

\* fetch, or the read of the next chunk, rejects with the AbortError: the catch
\* throws "Fetch aborted"
AbortRejects ==
    /\ spc \in {"fetch", "streaming"}
    /\ signalAborted
    /\ spc' = "threw"
    /\ doneAt' = Len(yielded)
    /\ result' = FetchAborted
    /\ twin' = TwinAfter("threw", <<>>)
    /\ UNCHANGED <<impl, optionsSignal, wire, body, decoder, buffer, usageData, streamCancelled,
                   yielded, response, signalAborted, abortAt>>
    /\ UNCHANGED <<anyVars, parseVars, agentVars>>

NextCancel ==
    \/ Fetch
    \/ \E n \in (1..MaxChunk) \cup {Len(body)}, k \in 0..(MaxFrames + 1), rejects \in BOOLEAN :
          Deliver(n, k, rejects)
    \/ EndOfBody
    \/ BodyError
    \/ Abort
    \/ AbortRejects

SpecCancel == InitCancel /\ [][NextCancel]_vars

-----------------------------------------------------------------------------
(* The gateway call of a REASON step, with a gateway that may never answer  *)

\* options.signal of the call of a REASON step: the custom node passes
\* AbortSignal.timeout(60000) when its config has a runId and nothing
\* otherwise; the ReAct agent is invoked without a signal
GatewaySignal(g, runId) == IF g = "custom" /\ runId THEN "timeout" ELSE "none"

InitTimeout ==
    /\ StartCall(CancelBodies)
    /\ optionsSignal \in {GatewaySignal(g, runId) : g \in {"react", "custom"}, runId \in BOOLEAN}

\* The timer of a timeout signal runs out, and a fetch or a read whose signal
\* is aborted rejects; the gateway owes nothing: it may answer, send chunks
\* and end the body, or stay silent for ever.
SpecTimeout ==
    InitTimeout /\ [][NextCancel]_vars /\ WF_vars(Abort) /\ WF_vars(AbortRejects)

-----------------------------------------------------------------------------
(* abortSignalAny on its own: a list of signals, some of them aborted       *)

MaxSignals == 4

\* controller.abort(signal.reason) for the input at position i: the abort
\* event of the combined signal also removes the listeners registered with
\* { signal: controller.signal }; on an aborted controller it does nothing
controllerAbort(ctl, i) ==
    IF ctl.aborted THEN ctl
    ELSE [ctl EXCEPT !.aborted = TRUE, !.reason = i, !.listeners = {}]

\* a combination that looks only at the first signal of the list when it is
\* made, and listens to all of them
abortSignalAnyFirstOnly(sigs) ==
    LET made == [NoController EXCEPT !.made = TRUE]
    IN IF sigs # <<>> /\ sigs[1]
       THEN [controllerAbort(made, 1) EXCEPT !.onReturn = TRUE]
       ELSE [made EXCEPT !.listeners = 1..Len(sigs)]

\* abortSignalAny(signals): the controller when the function returns
abortSignalAny(sigs) ==
    LET RECURSIVE Loop(_, _)
        Loop(i, ctl) ==
            IF i > Len(sigs) THEN ctl
            ELSE IF sigs[i] THEN [controllerAbort(ctl, i) EXCEPT !.onReturn = TRUE]
            ELSE Loop(i + 1, [ctl EXCEPT !.listeners = @ \cup {i}])
    IN Loop(1, [NoController EXCEPT !.made = TRUE])

InitAny ==
    /\ signals \in UNION {[1..n -> BOOLEAN] : n \in 0..MaxSignals}
    /\ controller = NoController
    /\ IdleCall
    /\ IdleParse
    /\ IdleAgent

\* const signal = abortSignalAny(signals)
Compose ==
    /\ ~controller.made
    /\ controller' = abortSignalAny(signals)
    /\ UNCHANGED signals
    /\ UNCHANGED <<impl, wire, body, decoder, buffer, usageData, streamCancelled, yielded,
                   doneAt, spc, result, response, signalAborted, abortAt, optionsSignal, twin>>
    /\ UNCHANGED <<parseVars, agentVars>>

\* the input at position i aborts: its abort event runs the listener that
\* abortSignalAny has put on it, if there is one
InputAborts(i) ==
    /\ i \in 1..Len(signals)
    /\ ~signals[i]
    /\ signals' = [signals EXCEPT ![i] = TRUE]
    /\ controller' = IF i \in controller.listeners THEN controllerAbort(controller, i)
                     ELSE controller
    /\ UNCHANGED <<impl, wire, body, decoder, buffer, usageData, streamCancelled, yielded,
                   doneAt, spc, result, response, signalAborted, abortAt, optionsSignal, twin>>
    /\ UNCHANGED <<parseVars, agentVars>>

NextAny ==
    \/ Compose
    \/ \E i \in 1..MaxSignals : InputAborts(i)

SpecAny == InitAny /\ [][NextAny]_vars

-----------------------------------------------------------------------------
(* Bodies that end without the blank line of their last frame               *)

\* what a body can end with: a data line cut before its line break, a data
\* line (text, sentinel, usage) with its line break but no blank line
Tails ==
    {DataLine(TextPayload(<<"Hello">>)),
     DataLine(TextPayload(<<"Hello">>)) \o <<NL>>,
     DataLine(<<"[DONE]">>) \o <<NL>>,
     DataLine(UsagePayload("2", "0")) \o <<NL>>}

TailBodies ==
    {Concat(fs) \o t : fs \in UNION {[1..n -> {FHello, FUsage, FDone}] : n \in 0..MaxFrames},
                       t \in Tails}

InitTail == StartCall(TailBodies) /\ optionsSignal = "none"

SpecTail == InitTail /\ [][NextStream]_vars

-----------------------------------------------------------------------------
(* parseToolCalls on its own: the aggregated texts it can be given         *)

Obj(members) == <<"{">> \o members \o <<"}">>
Arr2(a, b) == <<"[">> \o a \o <<",">> \o b \o <<"]">>

\* {"tool_name":"search","tool_input":{"query":"x"}}
SearchCall ==
    Obj(Member("tool_name", Str(<<"search">>)) \o <<",">>
        \o Member("tool_input", Obj(Member("query", Str(<<"x">>)))))
\* {"tool_name":"search","tool_input":null}
NullInputCall ==
    Obj(Member("tool_name", Str(<<"search">>)) \o <<",">> \o Member("tool_input", <<"null">>))
\* {"tool_name":"search"}
NoInputCall == Obj(Member("tool_name", Str(<<"search">>)))
\* {"tool_name":"","tool_input":{}}
EmptyNameCall ==
    Obj(Member("tool_name", Str(<<>>)) \o <<",">> \o Member("tool_input", <<"{", "}">>))
\* {"tool_name":"search","tool_input":{}}
EmptyInputCall ==
    Obj(Member("tool_name", Str(<<"search">>)) \o <<",">> \o Member("tool_input", <<"{", "}">>))
\* {"answer":5}
NotACall == Obj(Member("answer", <<"5">>))
\* {oops}
BrokenJson == <<"{", "oops", "}">>

\* bare JSON objects that are tool calls
BareCalls == {CalculatorCall, SearchCall, NullInputCall}

JsonCores ==
    BareCalls \cup {NoInputCall, EmptyNameCall, EmptyInputCall, NotACall, BrokenJson}
    \cup {<<"[">> \o CalculatorCall \o <<"]">>,
          Arr2(CalculatorCall, SearchCall),
          Arr2(CalculatorCall, <<"null">>),
          Arr2(<<"null">>, CalculatorCall),
          Arr2(CalculatorCall, <<"5">>),
          Arr2(NotACall, SearchCall)}

Fenced(core) == <<Fence, "json", NL>> \o core \o <<NL, Fence>>

PlainAnswer == <<"The", " ", "answer", " ", "is", " ", "5", ".">>
PlainCores == {PlainAnswer, <<"Hi">>, <<"x", " ", "{", "y", "}">>, <<"a", NL, "b">>}
Pads == {<<>>, <<" ">>, <<NL>>, <<NL, " ">>}
PlainTexts == {a \o c \o b : a \in Pads, b \in Pads, c \in PlainCores}

Before == {<<>>, <<" ">>, <<"Sure", ":", NL>>}
After == {<<>>, <<NL>>, <<NL, "Done", ".">>}
JsonTexts ==
    {a \o w \o b : a \in Before, b \in After,
                   w \in JsonCores \cup {Fenced(c) : c \in JsonCores}}

ParseInputs == JsonTexts \cup PlainTexts \cup {<<>>}

InitParse ==
    /\ ptext \in ParseInputs
    /\ presult = NoParse
    /\ systemPrompt = <<>>
    /\ gatewayMessages = <<>>
    /\ IdleStream
    /\ IdleAgent

\* responseParser.parseToolCalls(aggregatedText)
Parse ==
    /\ presult = NoParse
    /\ presult' = parseToolCalls(ptext, 0)
    /\ UNCHANGED <<ptext, systemPrompt, gatewayMessages>>
    /\ UNCHANGED <<streamVars, agentVars>>

NextParse == Parse

SpecParse == InitParse /\ [][NextParse]_vars

-----------------------------------------------------------------------------
(* The agent graph: REASON (agent node), ROUTE (shouldContinue), ACT        *)
(* (tools node), and the driving loop that invokes it once per turn         *)

RecursionLimit == 5
MaxTurns == 2
MaxMessages == 3

\* no thread id (undefined / null)
NoThread == 0
\* the defaultThreadId of the client the react graph is given: none
defaultThreadId == NoThread

HumanMessage(content) ==
    [type |-> "human", content |-> content, tool_calls |-> NoToolCalls,
     tool_call_id |-> 0, usage |-> Undefined]

\* the message the tools node appends for one tool call
ToolMessage(call) ==
    [type |-> "tool", content |-> <<"result">>, tool_calls |-> NoToolCalls,
     tool_call_id |-> call.id, usage |-> Undefined]

\* the chunks one call yields for a body that arrives whole
StreamAll(b) ==
    LET Yielded(st) == st.out \o FinalChunks(st.usageData)
    IN Yielded(ProcessChunk(Decode(<<>>, b).text, LoopState(<<>>, JNull, FALSE)))

\* the texts the model answers with
FencedArrayNull == Fenced(Arr2(CalculatorCall, <<"null">>))
Replies == {PlainAnswer, CalculatorCall, Fenced(CalculatorCall), FencedArrayNull}

\* the response body that carries a text, its usage and the sentinel
ReplyBody(text) == Frame(<<DataLine(TextPayload(Escaped(text)))>>) \o FUsage \o FDone

\* the tool call the custom agent node detects in the aggregated response
CustomToolCalls(aggregatedResponse, ids) ==
    LET Detect(parsedJson) ==
            IF parsedJson.ok /\ Truthy(Get(parsedJson.v, <<"tool_name">>))
                             /\ Get(parsedJson.v, <<"tool_input">>) # Undefined
            THEN <<[name |-> Get(parsedJson.v, <<"tool_name">>),
                    args |-> Get(parsedJson.v, <<"tool_input">>),
                    id |-> ids + 1]>>
            ELSE <<>>
        Between(jsonStart, ends) ==
            IF jsonStart # 0 /\ ends # {} /\ \E e \in ends : e > jsonStart
            THEN Detect(JSONParse(Trim(SubSeq(aggregatedResponse, jsonStart,
                                              CHOOSE e \in ends : \A x \in ends : x <= e))))
            ELSE <<>>
    IN Between(IndexOfAtom(aggregatedResponse, "{", 1),
               {i \in 1..Len(aggregatedResponse) : aggregatedResponse[i] = "}"})

\* the AIMessage callCustomLLMNode builds from the aggregated response
CustomMessage(aggregatedResponse, ids) ==
    LET Built(toolCalls) ==
            AIMessage(IF toolCalls # <<>> THEN <<>> ELSE aggregatedResponse,
                      IF toolCalls # <<>> THEN ToolCallList(toolCalls) ELSE NoToolCalls,
                      Undefined)
    IN Built(CustomToolCalls(aggregatedResponse, ids))

\* a reducer that keeps the first thread id written
threadIdReducerFirst(current, upd) == IF current # NoThread THEN current ELSE upd

\* a reducer that takes whatever the update holds
threadIdReducerReplace(current, upd) == upd

\* threadIdReducer: update ?? current
threadIdReducer(current, upd) == IF upd # NoThread THEN upd ELSE current

\* a reducer that puts the new messages in front
messagesReducerPrepend(x, y) == y \o x

\* the reducer of messages: x.concat(y)
messagesReducer(x, y) == x \o y

\* a node that returns its message twice
UpdateTwice(msgs, id) == [messages |-> msgs \o msgs, threadId |-> id]

\* a state update: the messages and the threadId a node (or the input) gives
Update(msgs, id) == [messages |-> msgs, threadId |-> id]

\* the state after an update u of the state (msgs, id): every channel takes
\* the value its reducer gives
Apply(msgs, id, u) ==
    /\ update' = u
    /\ messages' = messagesReducer(msgs, u.messages)
    /\ threadId' = threadIdReducer(id, u.threadId)

\* a routing that looks at the sender of the last message only
shouldContinueAnyAI(state) ==
    IF Len(state) > 0 /\ state[Len(state)].type = "ai" THEN "tools" ELSE "end"

\* shouldContinue(state)
shouldContinue(state) ==
    IF /\ Len(state) > 0
       /\ state[Len(state)].type = "ai"
       /\ state[Len(state)].tool_calls.defined
       /\ Len(state[Len(state)].tool_calls.list) > 0
    THEN "tools"
    ELSE "end"

InitAgent ==
    /\ graph \in {"react", "custom"}
    /\ messages = <<>>
    /\ threadId = NoThread
    /\ apc = "idle"
    /\ steps = 0
    /\ reasons = 0
    /\ requests = <<>>
    /\ turns = 0
    /\ uuid = 0
    /\ update = Update(<<>>, NoThread)
    /\ IdleLoop("question")
    /\ IdleStream
    /\ IdleParse

\* a loop that invokes the graph without waiting for the invoke before it
InvokeNoAwait ==
    /\ lpc \in {"question", "invoke"}
    /\ exitCode = "running"
    /\ turns < MaxTurns
    /\ Apply(<<>>, NoThread, Update(<<HumanMessage(<<"question">>)>>, NoThread))
    /\ apc' = "agent"
    /\ turns' = turns + 1
    /\ lpc' = "invoke"
    /\ UNCHANGED <<graph, steps, reasons, requests, uuid, exchange, currentThreadId,
                   closing, closes, exitCode>>
    /\ UNCHANGED <<streamVars, parseVars>>

\* a loop that starts a new thread with every input
InvokeNewThread ==
    /\ lpc = "question"
    /\ ~closing
    /\ exitCode = "running"
    /\ turns < MaxTurns
    /\ Apply(<<>>, NoThread, Update(<<HumanMessage(<<"question">>)>>, NoThread))
    /\ currentThreadId' = uuid + 1
    /\ uuid' = uuid + 1
    /\ apc' = "agent"
    /\ steps' = 0
    /\ reasons' = 0
    /\ requests' = <<>>
    /\ exchange' = NoExchange
    /\ turns' = turns + 1
    /\ lpc' = "invoke"
    /\ UNCHANGED <<graph, closing, closes, exitCode>>
    /\ UNCHANGED <<streamVars, parseVars>>

\* the driving loop: rl.question gives an input, the first one draws the
\* thread id, and app.invoke({ messages: [new HumanMessage(userInput)] }, ...)
\* is awaited (the custom graph's state also takes a threadId from its input)
Invoke ==
    /\ lpc = "question"
    /\ ~closing
    /\ exitCode = "running"
    /\ turns < MaxTurns
    /\ LET id == IF currentThreadId = NoThread THEN uuid + 1 ELSE currentThreadId
       IN /\ currentThreadId' = id
          /\ \E withThread \in BOOLEAN :
               /\ withThread => graph = "custom"
               /\ Apply(<<>>, NoThread,
                        Update(<<HumanMessage(<<"question">>)>>,
                               IF withThread THEN id ELSE NoThread))
    /\ uuid' = IF currentThreadId = NoThread THEN uuid + 1 ELSE uuid
    /\ apc' = "agent"
    /\ steps' = 0
    /\ reasons' = 0
    /\ requests' = <<>>
    /\ exchange' = NoExchange
    /\ turns' = turns + 1
    /\ lpc' = "invoke"
    /\ UNCHANGED <<graph, closing, closes, exitCode>>
    /\ UNCHANGED <<streamVars, parseVars>>

\* the invoke has settled: main prints (or catches and logs), goes round its
\* loop and calls rl.question again; on an interface that cleanup has closed
\* the call is rejected (rejects) or stays pending, as the runtime decides, and
\* a rejection leaves main for the catch of main(), which calls closeMcpClient
Settle ==
    \E rejects \in BOOLEAN :
        /\ rejects => closing
        /\ lpc' = IF rejects THEN "catch" ELSE "question"
        /\ closes' = IF rejects THEN closes + 1 ELSE closes
        /\ UNCHANGED <<currentThreadId, closing, exitCode>>

\* a failure message that keeps the text aggregated before the failure
ErrorMessageWithPartial(outcome, partial, error) ==
    AIMessage(partial \o <<"Error communicating with LLM: ">> \o error,
              NoToolCalls, Undefined)

\* the message callCustomLLMNode returns for a failed exchange: for an error
\* event of the stream, for a stream that throws
ErrorMessage(outcome, partial, error) ==
    IF outcome = "event"
    THEN AIMessage(<<"Error communicating with LLM: ">> \o error, NoToolCalls, Undefined)
    ELSE AIMessage(<<"Critical error calling LLM: ">>
                       \o (IF error # <<>> THEN error ELSE <<"Unknown error">>),
                   NoToolCalls, Undefined)

\* the uuidv4 values one run of the driving loop can draw: one for the
\* thread, and for every step of a turn one for a request or for a tool call
MaxUuid == 1 + MaxTurns * 2 * RecursionLimit

\* llm._generate for each answer of the gateway and each number of uuidv4
\* values drawn before it
Generated ==
    [text \in Replies |->
        [ids \in 0..MaxUuid |-> Generate(StreamAll(ReplyBody(text)), ids)]]

\* REASON in the react graph: llm._generate(messages) and the message appended
ReactAgent ==
    /\ apc = "agent"
    /\ graph = "react"
    /\ exitCode = "running"
    /\ steps < RecursionLimit
    /\ \E resp \in {"stream", "status401"}, text \in Replies :
         LET drawn == IF defaultThreadId = NoThread THEN 1 ELSE 0
             requestThread == IF defaultThreadId = NoThread THEN uuid + 1 ELSE defaultThreadId
             Appended(generated) ==
                 /\ Apply(messages, threadId, Update(<<generated.message>>, NoThread))
                 /\ uuid' = uuid + drawn + Len(generated.message.tool_calls.list)
                 /\ apc' = "route"
                 /\ exchange' = [outcome |-> "ok", text |-> text, error |-> <<>>]
                 /\ UNCHANGED loopVars
         IN /\ requests' = Append(requests, requestThread)
            /\ IF resp = "stream"
               THEN Appended(Generated[text][uuid + drawn])
               ELSE /\ apc' = "error"
                    /\ uuid' = uuid + drawn
                    /\ exchange' = [outcome |-> "threw", text |-> <<>>,
                                    error |-> <<"401">>]
                    /\ Settle
                    /\ UNCHANGED <<messages, threadId, update>>
    /\ steps' = steps + 1
    /\ reasons' = reasons + 1
    /\ UNCHANGED <<graph, turns>>
    /\ UNCHANGED <<streamVars, parseVars>>

\* REASON in the custom graph: callCustomLLMNode(state)
CustomAgent ==
    /\ apc = "agent"
    /\ graph = "custom"
    /\ exitCode = "running"
    /\ steps < RecursionLimit
    /\ IF threadId = NoThread
       THEN /\ Apply(messages, threadId,
                  Update(<<AIMessage(<<"Internal Error: Missing conversation thread ID.">>,
                                     NoToolCalls, Undefined)>>, NoThread))
            /\ UNCHANGED <<requests, uuid, exchange>>
       ELSE /\ requests' = Append(requests, threadId)
            /\ \/ \E text \in Replies :
                    LET Appended(aiMessage) ==
                            /\ Apply(messages, threadId, Update(<<aiMessage>>, NoThread))
                            /\ uuid' = uuid + Len(aiMessage.tool_calls.list)
                    IN /\ Appended(CustomMessage(text, uuid))
                       /\ exchange' = [outcome |-> "ok", text |-> text, error |-> <<>>]
               \/ \E outcome \in {"event", "threw"},
                     partial \in {<<>>, <<"The", " ", "ans">>, CalculatorCall},
                     error \in {<<>>, <<"fetch failed">>} :
                    /\ Apply(messages, threadId,
                             Update(<<ErrorMessage(outcome, partial, error)>>, NoThread))
                    /\ exchange' = [outcome |-> outcome, text |-> partial,
                                    error |-> error]
                    /\ UNCHANGED uuid
    /\ apc' = "route"
    /\ steps' = steps + 1
    /\ reasons' = reasons + 1
    /\ UNCHANGED <<graph, turns, loopVars>>
    /\ UNCHANGED <<streamVars, parseVars>>

\* ROUTE: the conditional edge after the agent node; at END the invoke settles
Route ==
    /\ apc = "route"
    /\ exitCode = "running"
    /\ apc' = shouldContinue(messages)
    /\ IF shouldContinue(messages) = "end" THEN Settle ELSE UNCHANGED loopVars
    /\ UNCHANGED <<graph, messages, threadId, steps, reasons, requests, turns, uuid,
                   update, exchange>>
    /\ UNCHANGED <<streamVars, parseVars>>

\* ACT: the tools node answers every tool call of the last message, in order
Tools ==
    /\ apc = "tools"
    /\ exitCode = "running"
    /\ steps < RecursionLimit
    /\ LET calls == messages[Len(messages)].tool_calls.list
       IN Apply(messages, threadId,
                Update([i \in 1..Len(calls) |-> ToolMessage(calls[i])], NoThread))
    /\ apc' = "agent"
    /\ steps' = steps + 1
    /\ UNCHANGED <<graph, reasons, requests, turns, uuid, exchange, loopVars>>
    /\ UNCHANGED <<streamVars, parseVars>>

\* a graph whose step limit is never reached
LimitReachedNever ==
    /\ apc \in {"agent", "tools"}
    /\ exitCode = "running"
    /\ steps > RecursionLimit
    /\ apc' = "error"
    /\ Settle
    /\ UNCHANGED <<graph, messages, threadId, steps, reasons, requests, turns, uuid,
                   update, exchange>>
    /\ UNCHANGED <<streamVars, parseVars>>

\* the graph has taken recursionLimit steps without reaching END: invoke
\* rejects, main catches and logs
LimitReached ==
    /\ apc \in {"agent", "tools"}
    /\ exitCode = "running"
    /\ steps >= RecursionLimit
    /\ apc' = "error"
    /\ Settle
    /\ UNCHANGED <<graph, messages, threadId, steps, reasons, requests, turns, uuid,
                   update, exchange>>
    /\ UNCHANGED <<streamVars, parseVars>>

\* the user types quit: main awaits cleanup()
Quit ==
    /\ lpc = "question"
    /\ ~closing
    /\ exitCode = "running"
    /\ closing' = TRUE
    /\ closes' = closes + 1
    /\ lpc' = "cleanup"
    /\ UNCHANGED <<currentThreadId, exitCode>>
    /\ UNCHANGED <<graph, messages, threadId, apc, steps, reasons, requests, turns,
                   uuid, update, exchange>>
    /\ UNCHANGED <<streamVars, parseVars>>

\* SIGINT or SIGTERM: the handler cleanup runs, wherever main waits
Signal ==
    /\ exitCode = "running"
    /\ IF closing
       THEN UNCHANGED <<closing, closes>>
       ELSE /\ closing' = TRUE
            /\ closes' = closes + 1
    /\ UNCHANGED <<currentThreadId, lpc, exitCode>>
    /\ UNCHANGED <<graph, messages, threadId, apc, steps, reasons, requests, turns,
                   uuid, update, exchange>>
    /\ UNCHANGED <<streamVars, parseVars>>

\* the closeMcpClient() that cleanup awaits resolves: process.exit(0)
CleanupExit ==
    /\ exitCode = "running"
    /\ closing
    /\ exitCode' = "0"
    /\ UNCHANGED <<currentThreadId, lpc, closing, closes>>
    /\ UNCHANGED <<graph, messages, threadId, apc, steps, reasons, requests, turns,
                   uuid, update, exchange>>
    /\ UNCHANGED <<streamVars, parseVars>>

\* the closeMcpClient() that the catch of main() awaits resolves: process.exit(1)
CatchExit ==
    /\ exitCode = "running"
    /\ lpc = "catch"
    /\ exitCode' = "1"
    /\ UNCHANGED <<currentThreadId, lpc, closing, closes>>
    /\ UNCHANGED <<graph, messages, threadId, apc, steps, reasons, requests, turns,
                   uuid, update, exchange>>
    /\ UNCHANGED <<streamVars, parseVars>>

Next ==
    \/ Invoke
    \/ ReactAgent
    \/ CustomAgent
    \/ Route
    \/ Tools
    \/ LimitReached
    \/ Quit
    \/ Signal
    \/ CleanupExit
    \/ CatchExit

Spec == InitAgent /\ [][Next]_vars

\* The graph with a gateway and tools that answer in the end and a runtime
\* that runs every node and edge that is due: the steps of the graph are
\* fair; the user and the signals of the process are not.
SpecLive ==
    /\ Spec
    /\ WF_vars(ReactAgent) /\ WF_vars(CustomAgent) /\ WF_vars(Route) /\ WF_vars(Tools)
    /\ WF_vars(LimitReached)

-----------------------------------------------------------------------------
(* shouldContinue on its own: the states it can be asked to route          *)

MessageKinds ==
    {HumanMessage(<<"question">>),
     AIMessage(PlainAnswer, NoToolCalls, Undefined),
     AIMessage(<<>>, ToolCallList(<<>>), Undefined),
     AIMessage(<<>>, ToolCallList(<<[name |-> JStr(<<"calculator">>),
                                     args |-> JObj(<<>>), id |-> 1]>>), Undefined),
     ToolMessage([id |-> 1])}

RouteInputs == UNION {[1..n -> MessageKinds] : n \in 0..MaxMessages}

InitRoute ==
    /\ graph = "custom"
    /\ messages \in RouteInputs
    /\ threadId = NoThread
    /\ apc = "route"
    /\ steps = 1
    /\ reasons = 1
    /\ requests = <<>>
    /\ turns = 1
    /\ uuid = 0
    /\ update = Update(<<>>, NoThread)
    /\ IdleLoop("invoke")
    /\ IdleStream
    /\ IdleParse

NextRoute == Route

SpecRoute == InitRoute /\ [][NextRoute]_vars

-----------------------------------------------------------------------------
(* The reducers of AgentStateAnnotation on their own: the updates a state   *)
(* can be given                                                             *)

MaxIds == 2

\* the updates of a state: up to two messages, and no thread id, the id the
\* state has, or a new one
StateUpdates ==
    {Update(ms, id) : ms \in UNION {[1..n -> MessageKinds] : n \in 0..2},
                      id \in {NoThread, threadId}
                               \cup (IF uuid < MaxIds THEN {uuid + 1} ELSE {})}

InitState ==
    /\ graph = "custom"
    /\ messages = <<>>
    /\ threadId = NoThread
    /\ apc = "idle"
    /\ steps = 0
    /\ reasons = 0
    /\ requests = <<>>
    /\ turns = 0
    /\ uuid = 0
    /\ update = Update(<<>>, NoThread)
    /\ IdleLoop("question")
    /\ IdleStream
    /\ IdleParse

\* one update of the state, given by the input of invoke or returned by a node
UpdateState ==
    /\ \E u \in StateUpdates :
         /\ Len(messages) + Len(u.messages) <= MaxMessages
         /\ Apply(messages, threadId, u)
         /\ uuid' = IF u.threadId = uuid + 1 THEN uuid + 1 ELSE uuid
    /\ UNCHANGED <<graph, apc, steps, reasons, requests, turns, exchange, loopVars>>
    /\ UNCHANGED <<streamVars, parseVars>>

NextState == UpdateState

SpecState == InitState /\ [][NextState]_vars

-----------------------------------------------------------------------------
(* formatMessages on its own: the histories it can be asked to translate    *)

\* new SystemMessage(content)
SystemMessage(content) ==
    [type |-> "system", content |-> content, tool_calls |-> NoToolCalls,
     tool_call_id |-> 0, usage |-> Undefined]

\* a message whose _getType() the formatter has no case for
ChatMessage(content) ==
    [type |-> "generic", content |-> content, tool_calls |-> NoToolCalls,
     tool_call_id |-> 0, usage |-> Undefined]

\* a formatter that gives a tool result the role "tool"
FormatMessageToolRole(msg) ==
    [role |-> CASE msg.type = "system" -> "system"
                [] msg.type = "human" -> "user"
                [] msg.type = "ai" -> "assistant"
                [] msg.type = "tool" -> "tool"
                [] OTHER -> "user",
     content |-> IF msg.type = "tool"
                 THEN <<"Tool Result [", msg.tool_call_id, "]:", NL>> \o msg.content
                 ELSE msg.content]

\* the callback of allMessages.map: one message in the gateway's format
FormatMessage(msg) ==
    CASE msg.type = "system" -> [role |-> "system", content |-> msg.content]
      [] msg.type = "human" -> [role |-> "user", content |-> msg.content]
      [] msg.type = "ai" -> [role |-> "assistant", content |-> msg.content]
      [] msg.type = "tool" ->
           [role |-> "user",
            content |-> <<"Tool Result [", msg.tool_call_id, "]:", NL>> \o msg.content]
      [] OTHER -> [role |-> "user", content |-> msg.content]

\* a filter that drops every empty assistant entry
KeepMessageNonEmpty(msg, index, array) ==
    msg.role # "assistant" \/ (msg.content # <<>> /\ Trim(msg.content) # <<>>)

\* a filter that keeps every entry
KeepMessageAll(msg, index, array) == TRUE

\* the callback of formattedMessages.filter (index counted from 1)
KeepMessage(msg, index, array) ==
    IF msg.role # "assistant" THEN TRUE
    ELSE IF msg.content # <<>> /\ Trim(msg.content) # <<>> THEN TRUE
    ELSE IF index = Len(array) THEN TRUE
    ELSE FALSE

\* MessageFormatter.formatMessages(messages) with the given defaultSystemPrompt
formatMessages(msgs, defaultSystemPrompt) ==
    LET systemPromptMessage ==
            IF defaultSystemPrompt # <<>>
               /\ ~(\E i \in 1..Len(msgs) : msgs[i].type = "system")
            THEN <<SystemMessage(defaultSystemPrompt)>> ELSE <<>>
        Map(allMessages) == [i \in 1..Len(allMessages) |-> FormatMessage(allMessages[i])]
        RECURSIVE Filter(_, _)
        Filter(array, index) ==
            IF index > Len(array) THEN <<>>
            ELSE (IF KeepMessage(array[index], index, array)
                  THEN <<array[index]>> ELSE <<>>) \o Filter(array, index + 1)
    IN Filter(Map(systemPromptMessage \o msgs), 1)

FormatKinds ==
    {SystemMessage(<<"Be kind.">>),
     HumanMessage(<<"question">>),
     AIMessage(PlainAnswer, NoToolCalls, Undefined),
     AIMessage(<<>>, ToolCallList(<<[name |-> JStr(<<"calculator">>),
                                     args |-> JObj(<<>>), id |-> 1]>>), Undefined),
     AIMessage(<<" ", NL>>, NoToolCalls, Undefined),
     ToolMessage([id |-> 1]),
     ChatMessage(<<"note">>)}

FormatInputs == UNION {[1..n -> FormatKinds] : n \in 0..MaxMessages}

SystemPrompts == {<<>>, <<"Be brief.">>}

InitFormat ==
    /\ graph = "custom"
    /\ messages \in FormatInputs
    /\ threadId = NoThread
    /\ apc = "format"
    /\ steps = 0
    /\ reasons = 0
    /\ requests = <<>>
    /\ turns = 0
    /\ uuid = 0
    /\ update = Update(<<>>, NoThread)
    /\ IdleLoop("question")
    /\ ptext = <<>>
    /\ presult = NoParse
    /\ systemPrompt \in SystemPrompts
    /\ gatewayMessages = <<>>
    /\ IdleStream

\* const gatewayMessages = this.messageFormatter.formatMessages(messages)
Format ==
    /\ apc = "format"
    /\ gatewayMessages' = formatMessages(messages, systemPrompt)
    /\ apc' = "formatted"
    /\ UNCHANGED <<ptext, presult, systemPrompt>>
    /\ UNCHANGED <<graph, messages, threadId, steps, reasons, requests, turns, uuid,
                   update, exchange, loopVars>>
    /\ UNCHANGED streamVars

NextFormat == Format

SpecFormat == InitFormat /\ [][NextFormat]_vars

-----------------------------------------------------------------------------
(* What a response body means, frame by frame: the reference the stream     *)
(* properties compare the processor with                                    *)

\* the frames of a body
FramesOf(w) == CHOOSE fs \in FrameSeqs : Concat(fs) = w

\* the text deltas of a frame's text events up to its sentinel
FrameText(f) ==
    CASE f = FHello -> <<"Hello">>
      [] f = FAccent -> <<EAcute>>
      [] f = FLines -> <<"Hi">>
      [] f = FBad -> <<"Hey", "you">>
      [] OTHER -> <<>>

FrameHasDone(f) == f \in {FDone, FLines}

UsageValue(i, o) ==
    JObj(<<[k |-> <<"inputTokens">>, v |-> JNum(i)], [k |-> <<"outputTokens">>, v |-> JNum(o)]>>)

\* the frames received up to and including the one with the sentinel
RECURSIVE UpToDone(_)
UpToDone(fs) ==
    IF fs = <<>> THEN <<>>
    ELSE IF FrameHasDone(Head(fs)) THEN <<Head(fs)>>
    ELSE <<Head(fs)>> \o UpToDone(Tail(fs))

\* the concatenation of the text deltas received before the sentinel
RECURSIVE TextOf(_)
TextOf(fs) == IF fs = <<>> THEN <<>> ELSE FrameText(Head(fs)) \o TextOf(Tail(fs))

ExpectedText(w) == TextOf(UpToDone(FramesOf(w)))

\* the text events of a frame up to its sentinel, one chunk each
FrameChunks(f) == [i \in 1..Len(FrameText(f)) |-> TextChunk(JStr(<<FrameText(f)[i]>>))]

RECURSIVE ChunksOf(_)
ChunksOf(fs) == IF fs = <<>> THEN <<>> ELSE FrameChunks(Head(fs)) \o ChunksOf(Tail(fs))

\* the text chunks a body is to give: those of its frames up to the sentinel
ExpectedChunks(w) == ChunksOf(UpToDone(FramesOf(w)))

\* the text chunks among the chunks yielded
TextChunks(chunks) == LET IsText(c) == c.generationInfo = Undefined IN SelectSeq(chunks, IsText)

\* the frames with a data line that is no event
MalformedFrames == {FLines, FBad}

\* the usage of the last usage event received before the sentinel, JNull for none
RECURSIVE LastUsage(_, _)
LastUsage(fs, last) ==
    IF fs = <<>> THEN last
    ELSE LastUsage(Tail(fs),
            IF Head(fs) = FUsage THEN UsageValue("3", "5")
            ELSE IF Head(fs) = FUsage2 THEN UsageValue("2", "0")
            ELSE last)

ExpectedUsage(w) == LastUsage(UpToDone(FramesOf(w)), JNull)

\* the bytes of the body delivered so far
Delivered == SubSeq(wire, 1, Len(wire) - Len(body))

\* the loop state after the bytes delivered so far, had they come as one chunk
AsOneChunk == ProcessChunk(Decode(<<>>, Delivered).text, LoopState(<<>>, JNull, FALSE))

-----------------------------------------------------------------------------
(* Properties                                                               *)

\* C1: within one turn every gateway request carries the threadId of the
\* first request of that turn.
C1_SameThreadId ==
    \A i \in 1..Len(requests) : requests[i] = requests[1]

\* C2: however the bytes of a body are cut into chunks, the processor is in
\* the state, and has yielded the chunks, that the same bytes give as one
\* chunk; at the end the sequence yielded is that of the whole body as one chunk.
C2_ChunkInvariance ==
    /\ spc = "streaming" =>
          /\ yielded = AsOneChunk.out
          /\ buffer = AsOneChunk.buffer
          /\ usageData = AsOneChunk.usageData
    /\ spc = "returned" => yielded = StreamAll(wire)

\* a cut between the two newlines of a frame boundary, after a frame whose
\* event was yielded: the second frame waits in the buffer for one newline
C2_Witness ==
    /\ spc = "streaming"
    /\ wire = FHello \o FAccent
    /\ yielded = <<TextChunk(JStr(<<"Hello">>))>>
    /\ buffer = SubSeq(DecodeRange(FAccent, 1, Len(FAccent)), 1, Len(FAccent) - 2)
    /\ body = <<NL>>

C4_ToolCallsExcludeText ==
    \A i \in 1..Len(messages) :
        (messages[i].type = "ai" /\ Len(messages[i].tool_calls.list) > 0)
            => messages[i].content = <<>>

\* C5: ROUTE goes to the tools exactly when the last message is an AI message
\* with a non-empty tool_calls list, to END in every other case, and it
\* changes nothing of the state.
C5_Route ==
    /\ [](apc # "route" =>
            /\ apc \in {"tools", "end"}
            /\ apc = "tools" <=>
                  /\ messages # <<>>
                  /\ messages[Len(messages)].type = "ai"
                  /\ messages[Len(messages)].tool_calls.list # <<>>)
    /\ [][UNCHANGED <<messages, threadId>>]_vars

\* routed to the tools after a human message and an AI message with a call
C5_Witness ==
    /\ apc = "tools"
    /\ Len(messages) = 2
    /\ messages[1].type = "human"
    /\ messages[2].type = "ai"
    /\ Len(messages[2].tool_calls.list) = 1
    /\ turns = 1 /\ reasons = 1 /\ requests = <<>>

\* the arguments of the calculator call
CalculatorArgs ==
    JObj(<<[k |-> <<"operation">>, v |-> JStr(<<"add">>)],
           [k |-> <<"num1">>, v |-> JNum("2")],
           [k |-> <<"num2">>, v |-> JNum("3")]>>)

ExpectedName(c) ==
    IF c = CalculatorCall THEN JStr(<<"calculator">>) ELSE JStr(<<"search">>)

ExpectedArgs(c) ==
    CASE c = CalculatorCall -> CalculatorArgs
      [] c = SearchCall -> JObj(<<[k |-> <<"query">>, v |-> JStr(<<"x">>)]>>)
      [] c = NullInputCall -> JNull

\* C7: a text that is exactly one bare JSON object with a non-empty
\* tool_name and a defined tool_input gives exactly one tool call, with that
\* name and those arguments, and the empty textResponse.
C7_BareToolCall ==
    (presult # NoParse /\ ptext \in BareCalls) =>
        presult = [textResponse |-> <<>>,
                   toolCalls |-> ToolCallList(<<[name |-> ExpectedName(ptext),
                                                 args |-> ExpectedArgs(ptext),
                                                 id |-> 1]>>)]

\* the calculator call of the example, parsed
C7_Witness ==
    /\ ptext = CalculatorCall
    /\ presult # NoParse
    /\ Len(presult.toolCalls.list) = 1
    /\ presult.toolCalls.list[1].args = CalculatorArgs

\* the text of a plain input without the whitespace around it
PlainCoreOf(t) ==
    CHOOSE c \in PlainCores : \E a \in Pads, b \in Pads : t = a \o c \o b

\* C8: a text with no fenced JSON block and no bare JSON object gives no
\* tool calls and, as textResponse, the text without its leading and
\* trailing whitespace.
C8_PlainText ==
    (presult # NoParse /\ ptext \in PlainTexts) =>
        /\ presult.toolCalls = NoToolCalls
        /\ presult.textResponse = PlainCoreOf(ptext)

\* "The answer is 5." with whitespace around it, parsed
C8_Witness ==
    /\ ptext = <<NL, " ">> \o PlainAnswer \o <<" ">>
    /\ presult = [textResponse |-> PlainAnswer, toolCalls |-> NoToolCalls]

\* C9: the text one gateway call returns is the concatenation, in arrival
\* order, of the text deltas received before the sentinel, and for plain text
\* the message has no tool calls.
C9_AggregatedText ==
    spc = "returned" =>
        /\ result.kind = "ok"
        /\ result.text = ExpectedText(wire)
        /\ result.message.tool_calls = NoToolCalls

\* two text deltas, the second in a frame that ends with the sentinel
C9_Witness ==
    /\ spc = "returned"
    /\ wire = FHello \o FLines
    /\ result.text = <<"Hello", "Hi">>
    /\ result.message.tool_calls = NoToolCalls

\* C10: the result of a call whose stream had a usage event carries the
\* inputTokens and outputTokens of the last such event; the usage is absent
\* only when there was none.
C10_UsageCarried ==
    spc = "returned" => result.usage = ExpectedUsage(wire)

\* C11: a data line that is no JSON, no object, has no "type" or an unknown
\* "type" never ends the call: no such line cancels the stream or makes it
\* throw, every text event of the lines and frames before and after it is
\* yielded in order, and the sentinel is still honoured.
C11_MalformedTolerated ==
    (\E i \in 1..Len(FramesOf(wire)) : FramesOf(wire)[i] \in MalformedFrames) =>
        /\ (spc = "streaming" /\ body = <<>>) =>
              (~streamCancelled /\ yielded = ExpectedChunks(wire))
        /\ spc = "returned" =>
              /\ TextChunks(yielded) = ExpectedChunks(wire)
              /\ streamCancelled <=>
                    \E i \in 1..Len(FramesOf(wire)) : FrameHasDone(FramesOf(wire)[i])
              /\ streamCancelled => doneAt = Len(ExpectedChunks(wire))

\* the texts around five malformed lines and the text of the frame after
\* them were yielded, and the sentinel of that frame ended the call
C11_Witness ==
    /\ spc = "returned"
    /\ wire = FBad \o FLines
    /\ yielded = <<TextChunk(JStr(<<"Hey">>)), TextChunk(JStr(<<"you">>)),
                   TextChunk(JStr(<<"Hi">>))>>
    /\ doneAt = 3

\* text carries part: part is a piece of it
Carries(text, part) ==
    \E i \in 1..(Len(text) - Len(part) + 1) : SubSeq(text, i, i + Len(part) - 1) = part

C13_AbortStops ==
    (abortAt >= 0 /\ (~streamCancelled \/ abortAt <= doneAt)) =>
        /\ Len(yielded) = abortAt
        /\ spc # "returned"
        /\ spc = "threw" => result = FetchAborted

\* C14: a call whose stream has reached the sentinel never throws.
C14_NoErrorAfterDone ==
    streamCancelled => (spc # "threw" /\ result.kind # "threw")

\* C15 as stated: once the threadId is set, no update changes it.
C15_FirstWriteWins ==
    [][threadId # NoThread => threadId' = threadId]_vars

\* C15: once the threadId is set, no update clears it: an update that
\* supplies no id keeps it, and an update that supplies an id, also a
\* different one, replaces it.
C15_NeverCleared ==
    [][threadId # NoThread =>
          /\ threadId' # NoThread
          /\ threadId' = IF update'.threadId # NoThread THEN update'.threadId
                         ELSE threadId]_vars

\* the second id drawn has replaced the first in a state that has messages
C15_Witness ==
    /\ uuid = 2
    /\ threadId = 2
    /\ update.threadId = 2
    /\ Len(messages) = 2

\* C16: an update that omits the threadId leaves the threadId of the state
\* as it was.
C16_OmittedKeeps ==
    [][update'.threadId = NoThread => threadId' = threadId]_vars

\* the state has the id written first, and the last update, an AI message
\* as the agent node returns it, held none
C16_Witness ==
    /\ uuid = 1
    /\ threadId = 1
    /\ update = Update(<<AIMessage(PlainAnswer, NoToolCalls, Undefined)>>, NoThread)
    /\ Len(messages) = 2

\* C17: after a state update the list of messages is the list before it
\* followed by the messages of the update, in their order.
C17_AppendOnly ==
    [][/\ Len(messages') >= Len(messages)
       /\ SubSeq(messages', 1, Len(messages)) = messages
       /\ SubSeq(messages', Len(messages) + 1, Len(messages')) = update'.messages]_vars

\* two messages were appended, in the order of the update, after a first one
C17_Witness ==
    /\ Len(messages) = 3
    /\ messages[1].type = "human"
    /\ update.messages = <<messages[2], messages[3]>>
    /\ messages[2].type = "ai"
    /\ messages[3].type = "tool"

-----------------------------------------------------------------------------
(* The gateway message list                                                 *)

\* an assistant entry whose content is empty or only whitespace
EmptyAssistant(e) == e.role = "assistant" /\ Trim(e.content) = <<>>

\* the entries of a list that are not empty assistant entries, in order
Substantive(list) == SelectSeq(list, LAMBDA e : ~EmptyAssistant(e))

\* the history with the default system prompt in front when one is configured
\* and the history has no system message
Prompted ==
    IF systemPrompt # <<>> /\ ~(\E i \in 1..Len(messages) : messages[i].type = "system")
    THEN <<SystemMessage(systemPrompt)>> \o messages
    ELSE messages

\* the entry a message translates to, with the given separator after the
\* tool-result marker
WireEntry(msg, sep) ==
    [role |-> CASE msg.type = "system" -> "system"
                [] msg.type = "human" -> "user"
                [] msg.type = "ai" -> "assistant"
                [] OTHER -> "user",
     content |-> IF msg.type = "tool"
                 THEN <<"Tool Result [", msg.tool_call_id, "]:", sep>> \o msg.content
                 ELSE msg.content]

\* the index of the most recent assistant message of the history, or 0
LastAi ==
    LET Ais == {i \in 1..Len(messages) : messages[i].type = "ai"}
    IN IF Ais = {} THEN 0 ELSE CHOOSE i \in Ais : \A j \in Ais : j <= i

\* the assistant entries of the gateway list
AssistantEntries == SelectSeq(gatewayMessages, LAMBDA e : e.role = "assistant")

\* the most recent assistant message of the history is in the gateway list
\* (entries with content are never dropped and order is kept, so the last
\* assistant entry of the list is then its translation)
MostRecentRetained ==
    /\ AssistantEntries # <<>>
    /\ AssistantEntries[Len(AssistantEntries)].content = messages[LastAi].content

\* the tool-loop history: user, assistant with a tool call and empty content,
\* tool result
ToolLoopHistory ==
    <<HumanMessage(<<"question">>),
      AIMessage(<<>>, ToolCallList(<<[name |-> JStr(<<"calculator">>),
                                      args |-> JObj(<<>>), id |-> 1]>>), Undefined),
      ToolMessage([id |-> 1])>>

\* C18 (as stated): once the history is formatted, its most recent assistant
\* message is in the gateway list, also when its content is empty and also
\* when tool results follow it.
C18_MostRecentRetained ==
    (apc = "formatted" /\ LastAi # 0) => MostRecentRetained

\* C18 (amended): the most recent assistant message is in the gateway list
\* exactly when it has content or is the last entry of the history; an empty
\* one that anything follows, a tool result included, is dropped.
C18_LastEntryRetained ==
    (apc = "formatted" /\ LastAi # 0) =>
        (MostRecentRetained <=>
            (Trim(messages[LastAi].content) # <<>> \/ LastAi = Len(messages)))

\* the tool-loop history has been formatted: the user entry and the tool
\* result are left
C18_Witness ==
    /\ apc = "formatted"
    /\ messages = ToolLoopHistory
    /\ systemPrompt = <<>>
    /\ Len(gatewayMessages) = 2
    /\ gatewayMessages[2].role = "user"

\* C19: the gateway list has no assistant entry with empty or whitespace-only
\* content before its last position, and the other entries of the translated
\* history are all in it, in their order.
C19_NoEmptyAssistantInside ==
    apc = "formatted" =>
        /\ \A i \in 1..(Len(gatewayMessages) - 1) : ~EmptyAssistant(gatewayMessages[i])
        /\ Substantive(gatewayMessages)
             = Substantive([i \in 1..Len(Prompted) |-> FormatMessage(Prompted[i])])

\* a history with an empty assistant message before its end has been
\* formatted, and the entry is gone while an assistant entry with content
\* and a last, whitespace-only one are kept
C19_Witness ==
    /\ apc = "formatted"
    /\ Len(messages) = 3
    /\ messages[1].type = "ai" /\ messages[1].content = <<>>
    /\ messages[2].type = "ai" /\ messages[2].content = PlainAnswer
    /\ messages[3].type = "ai" /\ messages[3].content = <<" ", NL>>
    /\ systemPrompt = <<>>
    /\ Len(gatewayMessages) = 2
    /\ EmptyAssistant(gatewayMessages[2])

-----------------------------------------------------------------------------
(* Validation of the response                                               *)

\* C21: a success-status response whose content type is not the event-stream
\* type, or that has no body, makes the call throw before anything is decoded,
\* and no chunk is yielded.
C21_ResponseValidated ==
    (response.status = "200"
       /\ (response.kind = "nobody" \/ response.contentType # EventStream)) =>
        /\ spc = "threw"
        /\ result.kind = "threw"
        /\ yielded = <<>>
        /\ body = wire /\ buffer = <<>> /\ decoder = <<>>

-----------------------------------------------------------------------------
(* The driving loop                                                         *)

\* C23: a turn starts only while main waits for input and the invoke before
\* it has ended or failed, and the conversation state changes only in the
\* turn in flight: at the step that starts it and while main awaits it.
C23_OneTurnAtATime ==
    [][/\ turns' # turns =>
            (lpc = "question" /\ apc \in {"idle", "end", "error"} /\ lpc' = "invoke")
       /\ (messages' # messages \/ threadId' # threadId) =>
            (lpc' = "invoke" /\ (lpc = "invoke" \/ turns' = turns + 1))]_vars

\* the second turn is in flight, its REASON step taken
C23_Witness ==
    /\ turns = 2
    /\ lpc = "invoke"
    /\ apc = "route"
    /\ Len(messages) = 2

\* the error message of the agent node for the exchange entered last
FailureMessage ==
    AIMessage((IF exchange.outcome = "event"
               THEN <<"Error communicating with LLM: ">>
               ELSE <<"Critical error calling LLM: ">>)
                  \o (IF exchange.outcome = "threw" /\ exchange.error = <<>>
                      THEN <<"Unknown error">> ELSE exchange.error),
              NoToolCalls, Undefined)

\* C24: after a failed gateway exchange of the custom agent node the update of
\* the node is exactly one assistant message, the last of the state, whose
\* content is the error text and which has no tool calls and nothing of the
\* text aggregated before the failure; the turn is routed to END, never to
\* the tools or back to the agent.
C24_FailureMessage ==
    (graph = "custom" /\ exchange.outcome \in {"event", "threw"}) =>
        /\ update.messages = <<FailureMessage>>
        /\ messages[Len(messages)] = FailureMessage
        /\ exchange.text # <<>> => ~Carries(FailureMessage.content, exchange.text)
        /\ apc \in {"route", "end"}

\* an error event came after a whole tool call had been aggregated, and the
\* turn has ended
C24_Witness ==
    /\ graph = "custom"
    /\ exchange = [outcome |-> "event", text |-> CalculatorCall,
                   error |-> <<"fetch failed">>]
    /\ apc = "end"
    /\ messages[Len(messages)].content
         = <<"Error communicating with LLM: ", "fetch failed">>

\* C25: after a turn that failed (a rejected gateway call or the recursion
\* limit) main is back at its prompt with the thread id it had, the process
\* running, and the next input starts a turn with the same thread id.
C25_Resumable ==
    /\ []((apc = "error" /\ exitCode = "running" /\ ~closing) =>
            /\ lpc = "question"
            /\ currentThreadId # NoThread
            /\ turns < MaxTurns => ENABLED Invoke)
    /\ [][(apc = "error" /\ turns' = turns + 1) =>
            (currentThreadId' = currentThreadId /\ apc' = "agent")]_vars

\* the recursion limit ended the first turn and main waits for input
C25_Witness ==
    /\ apc = "error"
    /\ steps >= RecursionLimit
    /\ turns = 1
    /\ lpc = "question"
    /\ currentThreadId = 1
    /\ ~closing
    /\ exitCode = "running"

\* C26 (as stated): the turn after one that the recursion limit ended starts
\* from a state that still has the messages accumulated before the abort.
C26_StateKept ==
    [][(apc = "error" /\ steps >= RecursionLimit /\ turns' = turns + 1) =>
          /\ Len(messages') > Len(messages)
          /\ SubSeq(messages', 1, Len(messages)) = messages]_vars

\* C27 (as stated): the process does not exit before closeMcpClient was
\* called, and closeMcpClient is called at most once.
C27_ShutdownOnce ==
    /\ exitCode # "running" => closes >= 1
    /\ closes <= 1

-----------------------------------------------------------------------------
(* The end of the input                                                     *)

\* the frames of a body in front of its unterminated tail
FramesBeforeTail(w) ==
    CHOOSE fs \in FrameSeqs : \E t \in Tails : Concat(fs) \o t = w

\* C28: a call whose body ends with unterminated content returns what the
\* frames in front of that content give, whatever the content: their text
\* chunks, their last usage, the sentinel only if one of them has it; a body
\* read to its end leaves the content in the buffer.
C28_TailNotEmitted ==
    ((\E t \in Tails, fs \in FrameSeqs : Concat(fs) \o t = wire) /\ spc = "returned") =>
        LET Given(fs) ==
                /\ yielded = ChunksOf(fs) \o FinalChunks(LastUsage(fs, JNull))
                /\ result.text = TextOf(fs)
                /\ streamCancelled <=> \E i \in 1..Len(fs) : FrameHasDone(fs[i])
                /\ ~streamCancelled =>
                      \E t \in Tails : buffer = t /\ Concat(fs) \o t = wire
        IN Given(UpToDone(FramesBeforeTail(wire)))

\* a text frame followed by a sentinel line without its blank line: the call
\* ended at the end of the body, not at a sentinel, with the line in the buffer
C28_Witness ==
    /\ spc = "returned"
    /\ wire = FHello \o DataLine(<<"[DONE]">>) \o <<NL>>
    /\ ~streamCancelled
    /\ buffer = DataLine(<<"[DONE]">>) \o <<NL>>
    /\ yielded = <<TextChunk(JStr(<<"Hello">>))>>

-----------------------------------------------------------------------------
(* Texts without an accepted tool call                                      *)

\* JSON texts in which no tool call is found or whose processing fails: an
\* object without tool_input, with an empty name, without tool_name, broken
\* JSON, and arrays with an element that makes processCall throw
FailingCores ==
    {NoInputCall, EmptyNameCall, NotACall, BrokenJson}
    \cup {Fenced(c) : c \in {NoInputCall, EmptyNameCall, NotACall, BrokenJson,
                             Arr2(CalculatorCall, <<"null">>),
                             Arr2(<<"null">>, CalculatorCall)}}

\* C29 (as stated): for a text in which no tool call is found or whose
\* parsing fails, also after an element of an array was accepted,
\* parseToolCalls returns the text itself and no toolCalls.  (Texts without
\* whitespace around them, so that the trim of the result changes nothing.)
C29_FailureReturnsText ==
    (/\ presult # NoParse
     /\ Trim(ptext) = ptext
     /\ \/ ptext \in PlainTexts \cup {<<>>}
        \/ \E a \in Before, b \in After, w \in FailingCores : ptext = a \o w \o b) =>
        /\ presult.toolCalls = NoToolCalls
        /\ presult.textResponse = ptext

\* C30 (as stated): a bare JSON object on lines of its own, with prose on
\* the lines before or after it, is not taken for a tool call.
C30_BareSpansText ==
    (/\ presult # NoParse
     /\ \E a \in Before, b \in After, w \in BareCalls :
          /\ ptext = a \o w \o b
          /\ a = <<"Sure", ":", NL>> \/ b = <<NL, "Done", ".">>) =>
        presult.toolCalls = NoToolCalls

-----------------------------------------------------------------------------
(* Which candidates become tool calls                                       *)

\* the candidates of a JSON text: the elements of an array in order, or the
\* object itself
CandidatesOf(core) ==
    LET Of(p) == IF p.v.t = "array" THEN [i \in 1..Len(p.v.m) |-> p.v.m[i].v] ELSE <<p.v>>
    IN Of(JSONParse(core))

\* a candidate with a non-empty tool_name and a tool_input, whatever its value
Acceptable(v) ==
    /\ v.t = "object"
    /\ HasKey(v, <<"tool_name">>) /\ Get(v, <<"tool_name">>) # JStr(<<>>)
    /\ HasKey(v, <<"tool_input">>)

\* C31 (as stated): the tool calls returned for a fenced JSON text, or for a
\* text that is one JSON object, are exactly its acceptable candidates, in
\* order, each judged on its own.
C31_AcceptedIff ==
    \A c \in JsonCores :
        (/\ presult # NoParse
         /\ JSONParse(c).ok
         /\ \/ \E a \in Before, b \in After : ptext = a \o Fenced(c) \o b
            \/ ptext = c /\ Head(c) = "{") =>
            LET want == SelectSeq(CandidatesOf(c), Acceptable)
                got == presult.toolCalls.list
            IN /\ Len(got) = Len(want)
               /\ \A i \in 1..Len(want) :
                    /\ got[i].name = Get(want[i], <<"tool_name">>)
                    /\ got[i].args = Get(want[i], <<"tool_input">>)

-----------------------------------------------------------------------------
(* The order of the chunks of one call                                      *)

\* the events of the frames at the places where they arrived: the text
\* events and, for a usage frame, its usage chunk
EventsInOrder(fs) ==
    LET EventsOf(f) ==
            CASE f = FUsage -> <<createUsageChunk(UsageValue("3", "5"))>>
              [] f = FUsage2 -> <<createUsageChunk(UsageValue("2", "0"))>>
              [] OTHER -> FrameChunks(f)
    IN Concat([i \in 1..Len(fs) |-> EventsOf(fs[i])])

\* a is b with some of its entries left out
RECURSIVE IsSubsequence(_, _)
IsSubsequence(a, b) ==
    IF a = <<>> THEN TRUE
    ELSE IF b = <<>> THEN FALSE
    ELSE IF Head(a) = Head(b) THEN IsSubsequence(Tail(a), Tail(b))
    ELSE IsSubsequence(a, Tail(b))

-----------------------------------------------------------------------------
(* How a call ends                                                          *)

\* C33 (as stated): a call ends either at the sentinel or with an error,
\* never both and never neither: a call that completes normally has
\* processed the sentinel, and a body that ends without one does not
\* complete normally.
C33_DoneOrError ==
    /\ spc = "returned" => streamCancelled
    /\ spc = "threw" => ~streamCancelled

-----------------------------------------------------------------------------
(* The timeout of a gateway exchange                                        *)

\* C34 (as stated): the gateway call of every REASON step ends, also when
\* the gateway never completes its response: a timeout cancels it.
C34_ExchangeEnds ==
    <>(spc \in {"returned", "threw"})

-----------------------------------------------------------------------------
(* A turn that begins without a threadId                                    *)

\* C35 (as stated): every entry of the agent node makes a gateway request
\* that carries a thread id, also in a turn that began with no threadId in
\* the state: no entry ends without a request because the id was missing.
C35_MissingThreadIdGenerated ==
    reasons >= 1 =>
        /\ Len(requests) = reasons
        /\ \A i \in 1..Len(requests) : requests[i] # NoThread

-----------------------------------------------------------------------------
(* The combined abort signal                                                *)

\* C36: the signal that abortSignalAny returns is aborted exactly when one
\* of its inputs is: from its return on, whatever the position of the input
\* and whether the input aborted before or after the call; the reason is
\* that of an aborted input.
C36_AbortedIffAnyInput ==
    controller.made =>
        /\ controller.aborted <=> \E i \in 1..Len(signals) : signals[i]
        /\ controller.aborted => signals[controller.reason]
        /\ controller.onReturn => controller.aborted

\* the second of two signals aborted after the signal was combined: the
\* listener on it aborted the combined signal
C36_Witness ==
    /\ controller.made /\ ~controller.onReturn
    /\ signals = <<FALSE, TRUE>>
    /\ controller.aborted /\ controller.reason = 2

-----------------------------------------------------------------------------
(* Every turn ends                                                          *)

\* the edges of the graph: agent -> route -> tools -> agent is its one cycle
GraphEdges ==
    {<<"agent", "route">>, <<"route", "tools">>, <<"tools", "agent">>,
     <<"route", "end">>, <<"agent", "error">>, <<"tools", "error">>}

\* C37: a turn that is under way ends, at END or with an error (unless the
\* process exits first); from the route it goes to END at once when the last
\* message has no tool call; and the graph moves along its edges only, whose
\* one cycle is agent, route, tools, agent.
C37_TurnTerminates ==
    /\ [](apc \in {"agent", "route", "tools"} =>
            <>(apc \in {"end", "error"} \/ exitCode # "running"))
    /\ [][(apc = "route" /\ apc' # apc
              /\ Len(messages[Len(messages)].tool_calls.list) = 0) => apc' = "end"]_vars
    /\ [][apc' # apc =>
             \/ <<apc, apc'>> \in GraphEdges
             \/ apc \in {"idle", "end", "error"} /\ apc' = "agent" /\ turns' = turns + 1]_vars

\* a turn that went round the cycle once and then ended at END, on an answer
\* without a tool call
C37_Witness ==
    /\ apc = "end"
    /\ reasons = 2
    /\ exchange.outcome = "ok"
    /\ messages[Len(messages)].type = "ai"
    /\ Len(messages[Len(messages)].tool_calls.list) = 0
    /\ Len(messages) = 4

-----------------------------------------------------------------------------
(* What the agent node adds to the state                                    *)

C39_Compared == response.kind = "stream" => response.contentType = EventStream

C39_SameChunksSameEnd ==
    C39_Compared => twin.spc = spc /\ twin.yielded = yielded

\* the two clients differ only where the body's close rejects after the sentinel
C39_ApartOnlyAfterDone ==
    C39_SameChunksSameEnd \/ (streamCancelled /\ abortAt >= 0)

\* ---------------------------------------------------------------------------
\* Consecutive calls on one client (SpecReuse).  The refactored client makes
\* one StreamProcessor in its constructor, whose TextDecoder is a field of the
\* instance; the monolithic client makes a TextDecoder in every call.
\* ---------------------------------------------------------------------------

\* a text frame cut in the middle of its two-byte character
CutAccent == SubSeq(FAccent, 1, CHOOSE k \in 1..Len(FAccent) : FAccent[k] = LeadByte)

\* bodies that end at a frame boundary, in a frame, or in a character
ReuseBodies ==
    {Concat(fs) \o t : fs \in UNION {[1..n -> {FHello, FUsage, FDone}] : n \in 0..MaxFrames},
                       t \in {<<>>, DataLine(TextPayload(<<"Hello">>)), CutAccent}}

InitReuse == StartCall(ReuseBodies) /\ optionsSignal = "none"

\* the call has ended and the same client is called again, for the body b:
\* buffer, usageData and streamCancelled are locals of the new call; the
\* decoder is this.decoder of the StreamProcessor (refactored) or a local
\* (monolithic)
NextCall(b) ==
    /\ spc \in {"returned", "threw"}
    /\ wire' = b
    /\ body' = b
    /\ decoder' = IF impl = "refactored" THEN decoder ELSE <<>>
    /\ buffer' = <<>>
    /\ usageData' = JNull
    /\ streamCancelled' = FALSE
    /\ yielded' = <<>>
    /\ doneAt' = -1
    /\ spc' = "fetch"
    /\ result' = NoResult
    /\ response' = NoResponse
    /\ signalAborted' = FALSE
    /\ abortAt' = -1
    /\ twin' = NoTwin
    /\ UNCHANGED <<impl, optionsSignal>>
    /\ UNCHANGED <<anyVars, parseVars, agentVars>>

NextReuse ==
    \/ NextStream
    \/ \E b \in ReuseBodies : NextCall(b)

SpecReuse == InitReuse /\ [][NextReuse]_vars

\* ---- C40 ----
\* C40: the events of one processStream call depend only on that call's
\* chunks: a call that has run to the end of its body has yielded what a
\* processor without any earlier call yields for the same bytes, whatever a
\* previous call on the same client left behind (a stream that ended in the
\* middle of a multi-byte character or of a frame).
C40_OnlyThisCallsChunks == spc = "returned" => yielded = StreamAll(wire)

\* the calls of the monolithic client, and the calls that start with an empty
\* decoder, yield what their own bytes give
C40_ApartOnlyOnCarriedDecoder ==
    (spc = "returned" /\ impl = "monolithic") => yielded = StreamAll(wire)

====
